---- MODULE Spec2Model ----
(***************************************************************************)
(* Cognition Vault: ingestion, artifact store, run lifecycle and wipe.     *)
(*                                                                         *)
(* The state is the SQLite database (ingestion_runs, raw_artifacts,        *)
(* threads, messages, the FTS index and the AUTOINCREMENT counters), the   *)
(* artifacts directory, and the position of the one import that may be in  *)
(* progress.  The main process is single threaded: the synchronous RPC     *)
(* handlers are atomic, importFileHeadless is a sequence of steps.         *)
(***************************************************************************)
EXTENDS Integers, Sequences, FiniteSets, TLC

\* ------------------------------------------------------------------------
\* Bounds of the model
\* ------------------------------------------------------------------------

\* number of ingestion runs ever created (AUTOINCREMENT ids 1..MaxRuns)
MaxRuns == 2

\* number of files whose unlink fails in one wipe
MaxStuck == 1

\* highest version of a test-injected migration
MaxVersion == 2

\* SQL NULL in an integer column (ids start at 1)
NULL == 0

\* ------------------------------------------------------------------------
\* File names: directory components, stem and extension
\* ------------------------------------------------------------------------

Name(dirs, stem, ext) == [abs |-> FALSE, dirs |-> dirs, stem |-> stem, ext |-> ext]

\* String.prototype.toLowerCase on the extensions that occur
toLowerCase(s) == IF s = "ZIP" THEN "zip" ELSE IF s = "JSON" THEN "json" ELSE s

\* the name passed on as it is
basename_keepsDirectories(n) == n

\* path.basename: the last component, without any directory
basename(n) == Name(<<>>, n.stem, n.ext)

\* path.extname(n).slice(1) || 'bin'
extnameOrBin(n) == IF n.ext = "" THEN "bin" ELSE n.ext

\* filename.toLowerCase().endsWith('.zip')
isZipName(n) == toLowerCase(n.ext) = "zip"

\* entryName.endsWith('.json')
endsWithJson(n) == n.ext = "json"

\* entryName === base || entryName.endsWith('/' + base)
isOrEndsWith(n, stem, ext) == n.stem = stem /\ n.ext = ext

RECURSIVE dropDotDot(_)
dropDotDot(ds) ==
    IF ds = <<>> THEN <<>>
    ELSE IF Head(ds) = ".." THEN dropDotDot(Tail(ds))
    ELSE <<Head(ds)>> \o dropDotDot(Tail(ds))

\* AdmZip's entryName: the header name with '../' normalized away
admZipEntryName(raw) == [abs |-> FALSE, dirs |-> dropDotDot(raw.dirs), stem |-> raw.stem, ext |-> raw.ext]

\* ------------------------------------------------------------------------
\* Byte sequences.  A byte sequence is identified by a name; BlobInfo says
\* what the bytes are: a JSON document, an HTML page, a ZIP archive or
\* something that is none of these.
\* ------------------------------------------------------------------------

\* the ZIP limits of importFileHeadless (the defaults, no VAULT_ZIP_* override)
MAX_ENTRIES == 10000
MAX_TOTAL_UNCOMPRESSED_SIZE == 1024 * 1024 * 1024
MAX_SINGLE_FILE_SIZE == 100 * 1024 * 1024
MAX_RATIO == 100

Blobs ==
    { "claude.json",     \* [ {uuid, name, chat_messages:[m,m]}, {uuid, name, chat_messages:[m]} ]
      "chatgpt.json",    \* [ {id, title, mapping:{n1: text}} ]
      "garbage",         \* '{ not valid json !!!'
      "chat.html",       \* one <div class="message"> block
      "readme",          \* plain text
      "claude.zip",      \* conversations.json, a directory, b.json (not JSON)
      "chatgpt.zip",     \* x/conversations.json, chat.html, notes/readme.txt
      "slip.zip",        \* ../outside.json
      "bomb.zip",        \* readme.txt, then an entry declaring 200 bytes compressed to 1
      "atlimit.zip",     \* MAX_ENTRIES entries, sizes, ratio and total exactly at the limits
      "toomany.zip",     \* MAX_ENTRIES + 1 entries
      "toolarge.zip",    \* readme.txt, then an entry of MAX_SINGLE_FILE_SIZE + 1 bytes
      "ratio101.zip",    \* an entry declaring MAX_RATIO + 1 bytes compressed to 1
      "overtotal.zip",   \* entries whose sizes add up to MAX_TOTAL_UNCOMPRESSED_SIZE + 1
      "zerocsize.zip",   \* an entry declaring 50 bytes and a compressed size of 0
      "poison.json",     \* [ {mapping:{n1: text}}, {mapping:{n1: text, n2: text without parts}} ]
      "gemini.json",     \* [ {conversations:[]}, {conversations:[m]} ]
      "object.json",     \* { "hello": "world" }
      "nofields.json",   \* [ { "hello": "world" } ]
      "empty.html",      \* a page without any <div class="message"> block
      "poison.zip",      \* conversations.json (good), then y/conversations.json (poison.json)
      "drift.zip",       \* chat.html without message blocks
      "gaps.json",       \* [ {mapping:{n1: text, n2: image, n3: text}} ]
      "gaps.html",       \* a block without a content div, then two blocks with one
      "gaps.zip",        \* conversations.json (gaps.json), chat.html (gaps.html)
      "gemini-gaps.json" }  \* [ {conversations:[m, {content: ''}, m]}, {conversations:[{content: ''}]} ]

\* crypto.createHash('sha256').update(buffer).digest('hex'): injective on the
\* byte sequences of the model
Sha256(b) == <<"sha256", b>>

\* buffer.length
byteLength(b) ==
    CASE b = "claude.json" -> 40
      [] b \in {"chatgpt.json", "chat.html", "poison.json", "gemini.json"} -> 30
      [] b \in {"garbage", "object.json", "nofields.json", "empty.html"} -> 20
      [] b = "readme" -> 10
      [] OTHER -> 100

Entry(raw, isDir, size, csize, data) ==
    [rawName |-> raw, isDirectory |-> isDir, size |-> size, compressedSize |-> csize, data |-> data]

\* threads: per thread, the number of source items that give a message;
\* skips: per thread, the indices (from 0) of the source items a parser
\* passes over (a node that is not text, an empty message, a block without
\* a content div)
DocWithSkips(kind, root, fmt, threads, skips) ==
    [kind |-> kind, root |-> root, fmt |-> fmt, threads |-> threads, skips |-> skips, entries |-> <<>>]

Doc(kind, root, fmt, threads) ==
    DocWithSkips(kind, root, fmt, threads, [i \in 1..Len(threads) |-> {}])

Zip(entries) ==
    [kind |-> "zip", root |-> "", fmt |-> "", threads |-> <<>>, skips |-> <<>>, entries |-> entries]

DirEntry(i) == Entry(Name(<<"d">>, "", ""), TRUE, 0, 0, "readme")

\* a text entry declaring `size` bytes compressed to `csize`
TextEntry(size, csize) == Entry(Name(<<>>, "readme", "txt"), FALSE, size, csize, "readme")

FullEntry == TextEntry(MAX_SINGLE_FILE_SIZE, MAX_SINGLE_FILE_SIZE \div MAX_RATIO)

\* how many entries of MAX_SINGLE_FILE_SIZE fit in the total, and what is left
FullCount == MAX_TOTAL_UNCOMPRESSED_SIZE \div MAX_SINGLE_FILE_SIZE

Remainder == MAX_TOTAL_UNCOMPRESSED_SIZE % MAX_SINGLE_FILE_SIZE

\* FullCount full entries, one entry of `last` bytes, directories up to n entries
FilledArchive(last, n) ==
    [i \in 1..n |-> IF i <= FullCount THEN FullEntry
                    ELSE IF i = FullCount + 1 THEN TextEntry(last, last)
                    ELSE DirEntry(i)]

AtLimitEntries == FilledArchive(Remainder, MAX_ENTRIES)

TooManyEntries == [i \in 1..(MAX_ENTRIES + 1) |-> DirEntry(i)]

BlobInfo(b) ==
    CASE b = "claude.json"  -> Doc("json", "array", "claude", <<2, 1>>)
      [] b = "chatgpt.json" -> Doc("json", "array", "chatgpt", <<1>>)
      [] b = "garbage"      -> Doc("garbage", "", "", <<>>)
      [] b = "chat.html"    -> Doc("html", "", "", <<1>>)
      [] b = "readme"       -> Doc("garbage", "", "", <<>>)
      [] b = "claude.zip"   -> Zip(<< Entry(Name(<<>>, "conversations", "json"), FALSE, 40, 20, "claude.json"),
                                    Entry(Name(<<"d">>, "", ""), TRUE, 0, 0, "readme"),
                                    Entry(Name(<<>>, "b", "json"), FALSE, 20, 20, "garbage") >>)
      [] b = "chatgpt.zip"  -> Zip(<< Entry(Name(<<"x">>, "conversations", "json"), FALSE, 30, 15, "chatgpt.json"),
                                    Entry(Name(<<>>, "chat", "html"), FALSE, 30, 10, "chat.html"),
                                    Entry(Name(<<"notes">>, "readme", "txt"), FALSE, 10, 10, "readme") >>)
      [] b = "slip.zip"     -> Zip(<< Entry(Name(<<"..">>, "outside", "json"), FALSE, 40, 20, "claude.json") >>)
      [] b = "bomb.zip"     -> Zip(<< Entry(Name(<<>>, "readme", "txt"), FALSE, 10, 10, "readme"),
                                    Entry(Name(<<>>, "big", "json"), FALSE, 200, 1, "claude.json") >>)
      [] b = "atlimit.zip"  -> Zip(AtLimitEntries)
      [] b = "toomany.zip"  -> Zip(TooManyEntries)
      [] b = "toolarge.zip" -> Zip(<< TextEntry(10, 10),
                                    Entry(Name(<<>>, "conversations", "json"), FALSE,
                                          MAX_SINGLE_FILE_SIZE + 1, MAX_SINGLE_FILE_SIZE, "chatgpt.json") >>)
      [] b = "ratio101.zip" -> Zip(<< Entry(Name(<<>>, "conversations", "json"), FALSE,
                                          MAX_RATIO + 1, 1, "chatgpt.json") >>)
      [] b = "overtotal.zip" -> Zip(FilledArchive(Remainder + 1, FullCount + 2))
      \* a thread count -(k + 1): k messages are read, the next one raises a TypeError
      [] b = "poison.json"  -> Doc("json", "array", "chatgpt", <<1, -2>>)
      [] b = "gemini.json"  -> Doc("json", "array", "gemini", <<0, 1>>)
      [] b = "object.json"  -> Doc("json", "object", "", <<>>)
      [] b = "nofields.json" -> Doc("json", "array", "", <<0>>)
      [] b = "empty.html"   -> Doc("html", "", "", <<0>>)
      [] b = "poison.zip"   -> Zip(<< Entry(Name(<<>>, "conversations", "json"), FALSE, 30, 15, "chatgpt.json"),
                                    Entry(Name(<<"y">>, "conversations", "json"), FALSE, 30, 15, "poison.json") >>)
      [] b = "gaps.json"    -> DocWithSkips("json", "array", "chatgpt", <<2>>, <<{1}>>)
      [] b = "gaps.html"    -> DocWithSkips("html", "", "", <<2>>, <<{0}>>)
      [] b = "gemini-gaps.json" -> DocWithSkips("json", "array", "gemini", <<2, 0>>, <<{1}, {0}>>)
      [] b = "gaps.zip"     -> Zip(<< Entry(Name(<<>>, "conversations", "json"), FALSE, 30, 15, "gaps.json"),
                                    Entry(Name(<<>>, "chat", "html"), FALSE, 30, 10, "gaps.html") >>)
      [] b = "drift.zip"    -> Zip(<< Entry(Name(<<>>, "chat", "html"), FALSE, 30, 10, "empty.html") >>)
      [] b = "zerocsize.zip" -> Zip(<< Entry(Name(<<>>, "readme", "txt"), FALSE, 50, 0, "readme") >>)

\* the files the user can pick: a path and the bytes at that path
File(name, bytes) == [name |-> name, bytes |-> bytes]

Providers == {"chatgpt", "claude", "gemini"}

Call(provider, file) == [provider |-> provider, file |-> file]

\* the imports the user makes: a provider tag and a picked file
ImportCalls ==
    { Call("claude", File(Name(<<"home">>, "claude", "json"), "claude.json")),
      Call("claude", File(Name(<<"home">>, "bad", "json"), "garbage")),
      Call("claude", File(Name(<<"home">>, "claude", "ZIP"), "claude.zip")),
      Call("claude", File(Name(<<"home">>, "slip", "zip"), "slip.zip")),
      Call("chatgpt", File(Name(<<"home">>, "chatgpt", "zip"), "chatgpt.zip")),
      Call("chatgpt", File(Name(<<"home">>, "bomb", "zip"), "bomb.zip")),
      Call("gemini", File(Name(<<"home">>, "broken", "zip"), "garbage")) }

\* ------------------------------------------------------------------------
\* State
\* ------------------------------------------------------------------------

VARIABLES
    db,      \* the SQLite database: tables, FTS index, AUTOINCREMENT counters
    disk,    \* the files written by the vault: path -> bytes
    pc,      \* where the import in progress stands ("idle": none)
    cur,     \* locals of the import in progress or just ended
    ret,     \* the last step: the call it ended (returned or threw), or "importing"
    pre,     \* numbers of threads and messages when the import in progress, or
             \* just ended, began
    search,  \* the vault:search request waiting in the event loop, and the
             \* result of the last one handled
    _paths   \* paths.ts: the path configuration of the process (NULL: not set)

vars == <<db, disk, pc, cur, ret, pre, search, _paths>>

EmptyFn == [x \in {} |-> NULL]

\* ------------------------------------------------------------------------
\* paths.ts.  A path is the sequence of its components; a component is a
\* name with, for a stored file, the hash put in front of it.
\* ------------------------------------------------------------------------

Component(prefix, stem, ext) == [prefix |-> prefix, stem |-> stem, ext |-> ext]

Dir(s) == Component(<<>>, s, "")

\* app.getPath('userData'), or the --vault-dir of a smoke run
UserDataDirs == { <<Dir("home"), Dir("userData")>>, <<Dir("tmp"), Dir("smoke")>> }

\* path.join(dir, ...more), normalized: a '..' component removes the one before it
RECURSIVE join(_, _)
join(dir, more) ==
    IF more = <<>> THEN dir
    ELSE IF Head(more) = Dir("..")
    THEN join(IF dir = <<>> THEN <<>> ELSE SubSeq(dir, 1, Len(dir) - 1), Tail(more))
    ELSE join(Append(dir, Head(more)), Tail(more))

\* the object initPaths builds
VaultPaths(userDataDir) ==
    [ userDataDir |-> userDataDir,
      vaultDir |-> join(userDataDir, <<Dir("vault")>>),
      dbPath |-> join(userDataDir, <<Dir("vault"), Component(<<>>, "vault", "db")>>),
      artifactsDir |-> join(userDataDir, <<Dir("vault"), Dir("artifacts")>>) ]

\* `${sha256}-${safeFilename}` split at the separators: the hash is in front
\* of the first component only
storedFilename(sha256, safeFilename) ==
    LET rest == [i \in 1..Len(safeFilename.dirs) |-> Dir(safeFilename.dirs[i])]
                    \o <<Component(<<>>, safeFilename.stem, safeFilename.ext)>>
        first == IF safeFilename.abs THEN Component(sha256, "", "")
                 ELSE Component(sha256, Head(rest).stem, Head(rest).ext)
    IN <<first>> \o (IF safeFilename.abs THEN rest ELSE Tail(rest))

\* let _paths: VaultPaths | null = null
NoPaths == [null |-> TRUE]

\* initPaths that replaces a configuration already set
initPathsResult_overwrites(configured, userDataDir) ==
    [paths |-> VaultPaths(userDataDir), threw |-> FALSE, value |-> VaultPaths(userDataDir)]

\* initPaths(userDataDir): throws when called twice
initPathsResult(configured, userDataDir) ==
    IF configured # NoPaths
    THEN [paths |-> configured, threw |-> TRUE, value |-> NoPaths]
    ELSE [paths |-> VaultPaths(userDataDir), threw |-> FALSE, value |-> VaultPaths(userDataDir)]

\* paths(): throws before initPaths
pathsResult(configured) ==
    IF configured = NoPaths
    THEN [threw |-> TRUE, value |-> NoPaths]
    ELSE [threw |-> FALSE, value |-> configured]

\* fs.readdirSync(dir): the files directly inside dir
readdirSync(fs, dir) == {f \in DOMAIN fs : SubSeq(f, 1, Len(f) - 1) = dir}

Put(f, k, v) == [x \in DOMAIN f \cup {k} |-> IF x = k THEN v ELSE f[x]]

Min(S) == CHOOSE x \in S : \A y \in S : x <= y

\* ------------------------------------------------------------------------
\* migrations.ts
\* ------------------------------------------------------------------------

LATEST_SCHEMA_VERSION == 1

\* ok: the script executes without an error
Migration(version, ok) == [version |-> version, ok |-> ok]

\* the production list: version 1 creates schema_meta and the four tables
migrations == <<Migration(1, TRUE)>>

\* FTS_DDL: the virtual table and its three triggers
FtsObjects == {"messages_fts", "messages_ai", "messages_ad", "messages_au"}

\* version: schema_meta's schema_version (0: no table, or no row);
\* objects: the FTS objects in sqlite_master; applied: the versions whose
\* script is part of the schema, in the order they committed
NoSchema == [version |-> 0, user_version |-> 0, objects |-> {}, applied |-> <<>>]

\* new Database(dbPath) on a path that holds no file
NewDatabase ==
    [ runs |-> EmptyFn, artifacts |-> EmptyFn, threads |-> EmptyFn, messages |-> EmptyFn,
      fts |-> {},
      seq |-> [runs |-> 0, artifacts |-> 0, threads |-> 0, messages |-> 0],
      schema |-> NoSchema ]

readSchemaVersion(d) == d.schema.version

writeSchemaVersion(d, version) == [d EXCEPT !.schema.version = version]

\* the filter without the sort
pending_unsorted(list, currentVersion, targetVersion) ==
    SelectSeq(list, LAMBDA m : m.version > currentVersion /\ m.version <= targetVersion)

\* list.filter(m => m.version > currentVersion && m.version <= targetVersion)
\*     .sort((a, b) => a.version - b.version)
pending(list, currentVersion, targetVersion) ==
    SortSeq(SelectSeq(list, LAMBDA m : m.version > currentVersion /\ m.version <= targetVersion),
            LAMBDA a, b : a.version < b.version)

\* the loop with the version written outside the transaction of the script
RECURSIVE applyPending_versionOutsideTransaction(_, _)
applyPending_versionOutsideTransaction(d, ms) ==
    IF ms = <<>> THEN [db |-> d, threw |-> FALSE]
    ELSE IF ~Head(ms).ok THEN [db |-> writeSchemaVersion(d, Head(ms).version), threw |-> TRUE]
    ELSE applyPending_versionOutsideTransaction(
             writeSchemaVersion([d EXCEPT !.schema.applied = Append(@, Head(ms).version)],
                                Head(ms).version),
             Tail(ms))

\* for (const m of pending) db.transaction(() => { db.exec(m.sql);
\* writeSchemaVersion(db, m.version) })(): a script that fails rolls its
\* transaction back and the error leaves the loop
RECURSIVE applyPending(_, _)
applyPending(d, ms) ==
    IF ms = <<>> THEN [db |-> d, threw |-> FALSE]
    ELSE IF ~Head(ms).ok THEN [db |-> d, threw |-> TRUE]
    ELSE applyPending(writeSchemaVersion([d EXCEPT !.schema.applied = Append(@, Head(ms).version)],
                                         Head(ms).version),
                      Tail(ms))

\* migrate with an FTS DDL that is skipped when messages_fts exists
migrate_ftsOnlyWhenTableMissing(d, list, targetVersion) ==
    LET r == applyPending(d, pending(list, readSchemaVersion(d), targetVersion))
    IN IF r.threw THEN r
       ELSE [db |-> [r.db EXCEPT !.schema.objects = IF "messages_fts" \in @ THEN @ ELSE FtsObjects,
                                 !.schema.user_version = readSchemaVersion(r.db)],
             threw |-> FALSE]

\* migrate: the pending migrations, then db.exec(FTS_DDL), then
\* db.pragma(`user_version = ${finalVersion}`); an error of the loop skips both
migrate(d, list, targetVersion) ==
    LET r == applyPending(d, pending(list, readSchemaVersion(d), targetVersion))
    IN IF r.threw THEN r
       ELSE [db |-> [r.db EXCEPT !.schema.objects = FtsObjects,
                                 !.schema.user_version = readSchemaVersion(r.db)],
             threw |-> FALSE]

\* a start that marks the runs left 'running' as failed
initDb_failsStaleRuns(d) ==
    [d EXCEPT !.runs = [id \in DOMAIN d.runs |->
                          IF d.runs[id].status = "running"
                          THEN [d.runs[id] EXCEPT !.status = "failed", !.completed_at = TRUE,
                                                  !.error_message = "interrupted"]
                          ELSE d.runs[id]]]

\* initDb: new Database, foreign_keys = ON, migrate(db)
initDb(d) == migrate(d, migrations, LATEST_SCHEMA_VERSION).db

\* the database of a vault opened for the first time
EmptyDb == initDb(NewDatabase)

NoCall == [op |-> "none", threw |-> FALSE, err |-> "", run |-> NULL, id |-> NULL, skipped |-> FALSE]

Returned(op, run, id, skipped) ==
    [op |-> op, threw |-> FALSE, err |-> "", run |-> run, id |-> id, skipped |-> skipped]

Threw(op, run, err) ==
    [op |-> op, threw |-> TRUE, err |-> err, run |-> run, id |-> NULL, skipped |-> FALSE]

\* path_in_archive of an artifact that was not extracted from an archive
NoPath == Name(<<>>, "", "")

\* parentStale: the parent's bytes had a row whose file was missing;
\* stored, parsed: children handed to storeRawArtifact, parser invocations
NoImport == [provider |-> "", file |-> File(NoPath, "garbage"), run |-> NULL,
             parent |-> NULL, parentSkipped |-> FALSE, parentStale |-> FALSE,
             idx |-> 0, child |-> NULL, stored |-> 0, parsed |-> 0]

Count(f) == Cardinality(DOMAIN f)

Snapshot == [threads |-> Count(db.threads), messages |-> Count(db.messages)]

NoSnapshot == [threads |-> 0, messages |-> 0]

\* a step of importFileHeadless that does not end the call
Importing == [NoCall EXCEPT !.op = "importing", !.run = cur.run]

\* run: the run of the import in progress when the request arrived (NULL: none)
NoSearch == [pending |-> FALSE, run |-> NULL, done |-> FALSE, hits |-> {}]

Init ==
    /\ db = EmptyDb
    /\ disk = EmptyFn
    /\ pc = "idle"
    /\ cur = NoImport
    /\ ret = NoCall
    /\ pre = NoSnapshot
    /\ search = NoSearch
    /\ _paths = VaultPaths(<<Dir("home"), Dir("userData")>>)

\* ------------------------------------------------------------------------
\* vault.ts: runs
\* ------------------------------------------------------------------------

\* INSERT INTO ingestion_runs (provider, status, source_label) VALUES (?, 'running', ?)
createIngestionRun(d, provider, sourceLabel) ==
    LET id == d.seq.runs + 1
    IN [d EXCEPT !.runs = Put(@, id, [provider |-> provider, status |-> "running",
                                      completed_at |-> FALSE, source_label |-> sourceLabel,
                                      error_message |-> ""]),
                 !.seq.runs = id]

\* a finalize that deletes the threads and messages of a run it marks failed
finalizeIngestionRun_purgesFailed(d, runId, status, errorMessage) ==
    LET keptT == {t \in DOMAIN d.threads : status # "failed" \/ d.threads[t].ingestion_run_id # runId}
        keptM == {m \in DOMAIN d.messages : status # "failed" \/ d.messages[m].ingestion_run_id # runId}
    IN IF runId \in DOMAIN d.runs
       THEN [d EXCEPT !.runs[runId].status = status,
                      !.runs[runId].completed_at = TRUE,
                      !.runs[runId].error_message = errorMessage,
                      !.threads = [t \in keptT |-> d.threads[t]],
                      !.messages = [m \in keptM |-> d.messages[m]],
                      !.fts = keptM]
       ELSE d

\* the UPDATE without its WHERE clause
finalizeIngestionRun_everyRun(d, runId, status, errorMessage) ==
    [d EXCEPT !.runs = [r \in DOMAIN d.runs |->
                          [d.runs[r] EXCEPT !.status = status, !.completed_at = TRUE,
                                            !.error_message = errorMessage]]]

\* UPDATE ingestion_runs SET status = ?, completed_at = ?, error_message = ? WHERE id = ?
\* (completed_at: FALSE is NULL, TRUE is a Date.now() timestamp)
finalizeIngestionRun(d, runId, status, errorMessage) ==
    IF runId \in DOMAIN d.runs
    THEN [d EXCEPT !.runs[runId].status = status,
                   !.runs[runId].completed_at = TRUE,
                   !.runs[runId].error_message = errorMessage]
    ELSE d

\* ------------------------------------------------------------------------
\* vault.ts: artifacts
\* ------------------------------------------------------------------------

\* the result of storeRawArtifact: the database and directory it leaves, and
\* either the returned {id, skipped} or the error thrown
StoreResult(d, fs, threw, err, id, skipped) ==
    [db |-> d, disk |-> fs, threw |-> threw, err |-> err, id |-> id, skipped |-> skipped]

\* storeRawArtifact with the INSERT moved before fs.writeFileSync
storeRawArtifact_rowBeforeFile(d, fs, runId, provider, artifactType, filename, buffer, parentArtifactId, pathInArchive, writeOk) ==
    LET sha256 == Sha256(buffer)
        existing == {a \in DOMAIN d.artifacts : d.artifacts[a].sha256 = sha256}
        safeFilename == basename(filename)
        storedPath == join(_paths.artifactsDir, storedFilename(sha256, safeFilename))
        id == d.seq.artifacts + 1
        row == [ingestion_run_id |-> runId, parent_artifact_id |-> parentArtifactId,
                provider |-> provider, artifact_type |-> artifactType,
                filename |-> safeFilename, path_in_archive |-> pathInArchive,
                sha256 |-> sha256, stored_path |-> storedPath,
                byte_size |-> byteLength(buffer)]
        inserted == [d EXCEPT !.artifacts = Put(@, id, row), !.seq.artifacts = id]
        fkOk == /\ runId = NULL \/ runId \in DOMAIN d.runs
                /\ parentArtifactId = NULL \/ parentArtifactId \in DOMAIN d.artifacts
    IN IF existing # {}
       THEN StoreResult(d, fs, FALSE, "", Min(existing), TRUE)
       ELSE IF ~fkOk
       THEN StoreResult(d, fs, TRUE, "FOREIGN KEY constraint failed", NULL, FALSE)
       ELSE IF ~writeOk
       THEN StoreResult(inserted, fs, TRUE, "FS_WRITE_FAILED", NULL, FALSE)
       ELSE StoreResult(inserted, Put(fs, storedPath, buffer), FALSE, "", id, FALSE)

\* storeRawArtifact with a dedup branch that writes the file of the existing row again
storeRawArtifact_rewritesOnDedup(d, fs, runId, provider, artifactType, filename, buffer, parentArtifactId, pathInArchive, writeOk) ==
    LET sha256 == Sha256(buffer)
        existing == {a \in DOMAIN d.artifacts : d.artifacts[a].sha256 = sha256}
        safeFilename == basename(filename)
        storedPath == join(_paths.artifactsDir, storedFilename(sha256, safeFilename))
        written == Put(fs, storedPath, buffer)
        id == d.seq.artifacts + 1
        row == [ingestion_run_id |-> runId, parent_artifact_id |-> parentArtifactId,
                provider |-> provider, artifact_type |-> artifactType,
                filename |-> safeFilename, path_in_archive |-> pathInArchive,
                sha256 |-> sha256, stored_path |-> storedPath,
                byte_size |-> byteLength(buffer)]
        fkOk == /\ runId = NULL \/ runId \in DOMAIN d.runs
                /\ parentArtifactId = NULL \/ parentArtifactId \in DOMAIN d.artifacts
    IN IF existing # {}
       THEN IF writeOk
            THEN StoreResult(d, Put(fs, d.artifacts[Min(existing)].stored_path, buffer), FALSE, "", Min(existing), TRUE)
            ELSE StoreResult(d, fs, TRUE, "FS_WRITE_FAILED", NULL, FALSE)
       ELSE IF ~writeOk
       THEN StoreResult(d, fs, TRUE, "FS_WRITE_FAILED", NULL, FALSE)
       ELSE IF ~fkOk
       THEN StoreResult(d, written, TRUE, "FOREIGN KEY constraint failed", NULL, FALSE)
       ELSE StoreResult([d EXCEPT !.artifacts = Put(@, id, row), !.seq.artifacts = id],
                        written, FALSE, "", id, FALSE)

\* writeOk: whether fs.writeFileSync succeeds
storeRawArtifact(d, fs, runId, provider, artifactType, filename, buffer, parentArtifactId, pathInArchive, writeOk) ==
    LET sha256 == Sha256(buffer)
        existing == {a \in DOMAIN d.artifacts : d.artifacts[a].sha256 = sha256}
        safeFilename == basename(filename)
        storedPath == join(_paths.artifactsDir, storedFilename(sha256, safeFilename))
        written == Put(fs, storedPath, buffer)
        id == d.seq.artifacts + 1
        row == [ingestion_run_id |-> runId, parent_artifact_id |-> parentArtifactId,
                provider |-> provider, artifact_type |-> artifactType,
                filename |-> safeFilename, path_in_archive |-> pathInArchive,
                sha256 |-> sha256, stored_path |-> storedPath,
                byte_size |-> byteLength(buffer)]
        \* foreign_keys = ON: the run and the parent must exist (or be NULL)
        fkOk == /\ runId = NULL \/ runId \in DOMAIN d.runs
                /\ parentArtifactId = NULL \/ parentArtifactId \in DOMAIN d.artifacts
    IN IF existing # {}
       THEN StoreResult(d, fs, FALSE, "", Min(existing), TRUE)
       ELSE IF ~writeOk
       THEN StoreResult(d, fs, TRUE, "FS_WRITE_FAILED", NULL, FALSE)
       ELSE IF ~fkOk
       THEN StoreResult(d, written, TRUE, "FOREIGN KEY constraint failed", NULL, FALSE)
       ELSE StoreResult([d EXCEPT !.artifacts = Put(@, id, row), !.seq.artifacts = id],
                        written, FALSE, "", id, FALSE)

\* a wipe transaction that also empties sqlite_sequence
wipeTransaction_resetsSequence(d) ==
    [d EXCEPT !.messages = EmptyFn,
              !.fts = IF "messages_ad" \in d.schema.objects THEN {} ELSE @,
              !.threads = EmptyFn, !.artifacts = EmptyFn, !.runs = EmptyFn,
              !.seq = [runs |-> 0, artifacts |-> 0, threads |-> 0, messages |-> 0]]

\* the wipe transaction without its DELETE FROM raw_artifacts
wipeTransaction_keepsArtifacts(d) ==
    [d EXCEPT !.messages = EmptyFn,
              !.fts = IF "messages_ad" \in d.schema.objects THEN {} ELSE @,
              !.threads = EmptyFn, !.runs = EmptyFn]

\* the wipe transaction without its DELETE FROM ingestion_runs
wipeTransaction_keepsRuns(d) ==
    [d EXCEPT !.messages = EmptyFn, !.fts = {}, !.threads = EmptyFn, !.artifacts = EmptyFn]

\* db.transaction: DELETE FROM messages; threads; raw_artifacts; ingestion_runs.
\* The messages_ad trigger empties the FTS index; sqlite_sequence is kept.
wipeTransaction(d) ==
    [d EXCEPT !.messages = EmptyFn,
              !.fts = IF "messages_ad" \in d.schema.objects THEN {} ELSE @,
              !.threads = EmptyFn, !.artifacts = EmptyFn, !.runs = EmptyFn]

\* wipeVault with the errors checked after the transaction instead of before it
wipeVaultResult_errorsAfterDb(d, fs, readOk, stuck, txOk) ==
    LET files == IF readOk THEN readdirSync(fs, _paths.artifactsDir) ELSE {}
        deleted == files \ stuck
        fs2 == [f \in DOMAIN fs \ deleted |-> fs[f]]
        errors == (IF readOk THEN 0 ELSE 1) + Cardinality(files \cap stuck)
    IN IF ~txOk
       THEN [db |-> d, disk |-> fs2, threw |-> TRUE, err |-> "DB_WRITE_FAILED"]
       ELSE IF errors > 0
       THEN [db |-> wipeTransaction(d), disk |-> fs2, threw |-> TRUE, err |-> "Vault wipe partially failed"]
       ELSE [db |-> wipeTransaction(d), disk |-> fs2, threw |-> FALSE, err |-> ""]

\* readOk: fs.readdirSync succeeds; stuck: the files whose unlinkSync fails;
\* txOk: the database transaction commits
wipeVaultResult(d, fs, readOk, stuck, txOk) ==
    LET files == IF readOk THEN readdirSync(fs, _paths.artifactsDir) ELSE {}
        deleted == files \ stuck
        fs2 == [f \in DOMAIN fs \ deleted |-> fs[f]]
        errors == (IF readOk THEN 0 ELSE 1) + Cardinality(files \cap stuck)
    IN IF errors > 0
       THEN [db |-> d, disk |-> fs2, threw |-> TRUE, err |-> "Vault wipe partially failed"]
       ELSE IF ~txOk
       THEN [db |-> d, disk |-> fs2, threw |-> TRUE, err |-> "DB_WRITE_FAILED"]
       ELSE [db |-> wipeTransaction(d), disk |-> fs2, threw |-> FALSE, err |-> ""]

\* ------------------------------------------------------------------------
\* importers: threads and messages, one transaction per parser invocation
\* ------------------------------------------------------------------------

ParseResult(d, threw, err) == [db |-> d, threw |-> threw, err |-> err]

insertThread(d, provider, rawArtifactId, runId) ==
    LET id == d.seq.threads + 1
    IN [d EXCEPT !.threads = Put(@, id, [provider |-> provider, raw_artifact_id |-> rawArtifactId,
                                         ingestion_run_id |-> runId]),
                 !.seq.threads = id]

\* an INSERT INTO messages whose row is not indexed
insertMessage_notIndexed(d, threadId, provider, position, rawArtifactId, runId) ==
    LET id == d.seq.messages + 1
    IN [d EXCEPT !.messages = Put(@, id, [thread_id |-> threadId, provider |-> provider,
                                          position |-> position, raw_artifact_id |-> rawArtifactId,
                                          ingestion_run_id |-> runId]),
                 !.seq.messages = id]

\* the messages_ai trigger indexes the new row
insertMessage(d, threadId, provider, position, rawArtifactId, runId) ==
    LET id == d.seq.messages + 1
    IN [d EXCEPT !.messages = Put(@, id, [thread_id |-> threadId, provider |-> provider,
                                          position |-> position, raw_artifact_id |-> rawArtifactId,
                                          ingestion_run_id |-> runId]),
                 !.fts = IF "messages_ai" \in d.schema.objects THEN @ \cup {id} ELSE @,
                 !.seq.messages = id]

\* a loop that gives a message the index of its source item
RECURSIVE insertMessages_positionIsIndex(_, _, _, _, _, _, _, _, _)
insertMessages_positionIsIndex(d, threadId, provider, n, skip, item, position, rawArtifactId, runId) ==
    IF n = 0 THEN d
    ELSE IF item \in skip
    THEN insertMessages_positionIsIndex(d, threadId, provider, n, skip, item + 1, position,
                                        rawArtifactId, runId)
    ELSE insertMessages_positionIsIndex(insertMessage(d, threadId, provider, item, rawArtifactId, runId),
                                        threadId, provider, n - 1, skip, item + 1, position + 1,
                                        rawArtifactId, runId)

\* the loop over the source items of one thread, from item `item` on, for
\* the n messages still to come: `continue` on an item of `skip`, else an
\* INSERT with position++
RECURSIVE insertMessages(_, _, _, _, _, _, _, _, _)
insertMessages(d, threadId, provider, n, skip, item, position, rawArtifactId, runId) ==
    IF n = 0 THEN d
    ELSE IF item \in skip
    THEN insertMessages(d, threadId, provider, n, skip, item + 1, position, rawArtifactId, runId)
    ELSE insertMessages(insertMessage(d, threadId, provider, position, rawArtifactId, runId),
                        threadId, provider, n - 1, skip, item + 1, position + 1, rawArtifactId, runId)

\* for (const thread of data): insert the thread, then its messages.
\* skipEmpty: a thread without source items is passed over (Gemini).
RECURSIVE insertThreads(_, _, _, _, _, _, _)
insertThreads(d, provider, counts, skips, skipEmpty, rawArtifactId, runId) ==
    IF counts = <<>> THEN d
    ELSE IF skipEmpty /\ Head(counts) = 0 /\ Head(skips) = {}
    THEN insertThreads(d, provider, Tail(counts), Tail(skips), skipEmpty, rawArtifactId, runId)
    ELSE LET d1 == insertThread(d, provider, rawArtifactId, runId)
             d2 == insertMessages(d1, d1.seq.threads, provider, Head(counts), Head(skips), 0, 0,
                                  rawArtifactId, runId)
         IN insertThreads(d2, provider, Tail(counts), Tail(skips), skipEmpty, rawArtifactId, runId)

\* a transaction that commits what was inserted before the error
transaction_keepsPartial(d, after, err) ==
    IF after.seq.threads = d.seq.threads THEN ParseResult(d, FALSE, "")
    ELSE ParseResult(after, err # "", err)

\* db.transaction(fn)(): `after` is the database when fn returned or threw,
\* err the error ("" if none).  All of fn's inserts, or none of them.
transaction(d, after, err) ==
    IF after.seq.threads = d.seq.threads THEN ParseResult(d, FALSE, "")
    ELSE IF err # "" THEN ParseResult(d, TRUE, err)
    ELSE ParseResult(after, FALSE, "")

\* the thread whose messages cannot all be read (0 if every thread is readable)
firstBad(counts) ==
    IF \A i \in 1..Len(counts) : counts[i] >= 0 THEN 0
    ELSE Min({i \in 1..Len(counts) : counts[i] < 0})

\* the threads and messages inserted until the loop ends or a message throws
inserted(counts) ==
    IF firstBad(counts) = 0 THEN counts
    ELSE SubSeq(counts, 1, firstBad(counts) - 1) \o << -counts[firstBad(counts)] - 1 >>

\* the error that ends the transaction callback: an unreadable message, a
\* failing write (a foreign key, or the write itself: txOk), or none
callbackError(counts, writeOk) ==
    IF firstBad(counts) # 0 THEN "TypeError"
    ELSE IF ~writeOk THEN "DB_WRITE_FAILED"
    ELSE ""

\* the message counts a JSON parser finds in the threads of a document: the
\* field it reads (mapping, chat_messages, conversations) is present only in
\* the documents of its own provider
countsFor(info, fmt) ==
    [i \in 1..Len(info.threads) |-> IF info.fmt = fmt THEN info.threads[i] ELSE 0]

\* the source items the parser passes over, in the same documents
skipsFor(info, fmt) ==
    [i \in 1..Len(info.threads) |-> IF info.fmt = fmt THEN info.skips[i] ELSE {}]

fkThread(d, rawArtifactId, runId) ==
    rawArtifactId \in DOMAIN d.artifacts /\ runId \in DOMAIN d.runs

jsonImporter(d, provider, skipEmpty, runId, rawArtifactId, content, txOk) ==
    LET info == BlobInfo(content)
    IN IF info.kind # "json" THEN ParseResult(d, TRUE, "PARSE_JSON_FAILED")
       ELSE IF info.root # "array" THEN ParseResult(d, TRUE, "expected array")
       ELSE LET counts == countsFor(info, provider)
                after == insertThreads(d, provider, inserted(counts), skipsFor(info, provider),
                                       skipEmpty, rawArtifactId, runId)
            IN transaction(d, after, callbackError(counts, txOk /\ fkThread(d, rawArtifactId, runId)))

importChatGPT(d, runId, rawArtifactId, content, txOk) ==
    jsonImporter(d, "chatgpt", FALSE, runId, rawArtifactId, content, txOk)

importClaude(d, runId, rawArtifactId, content, txOk) ==
    jsonImporter(d, "claude", FALSE, runId, rawArtifactId, content, txOk)

importGemini(d, runId, rawArtifactId, content, txOk) ==
    jsonImporter(d, "gemini", TRUE, runId, rawArtifactId, content, txOk)

\* one thread, and one message per <div class="message"> block with a content div
importChatGPTfromHTML(d, runId, rawArtifactId, content, txOk) ==
    LET info == BlobInfo(content)
        blocks == IF info.kind = "html" THEN info.threads[1] ELSE 0
        skip == IF info.kind = "html" THEN info.skips[1] ELSE {}
        after == insertThreads(d, "chatgpt", <<blocks>>, <<skip>>, FALSE, rawArtifactId, runId)
    IN transaction(d, after, callbackError(<<blocks>>, txOk /\ fkThread(d, rawArtifactId, runId)))

runParser(parser, d, runId, rawArtifactId, content, txOk) ==
    CASE parser = "chatgpt" -> importChatGPT(d, runId, rawArtifactId, content, txOk)
      [] parser = "chatgpt_html" -> importChatGPTfromHTML(d, runId, rawArtifactId, content, txOk)
      [] parser = "claude" -> importClaude(d, runId, rawArtifactId, content, txOk)
      [] parser = "gemini" -> importGemini(d, runId, rawArtifactId, content, txOk)
      [] OTHER -> ParseResult(d, FALSE, "")

\* ------------------------------------------------------------------------
\* ipcHandlers.ts: importFileHeadless
\* ------------------------------------------------------------------------

\* the ratio test with >= in place of >
ratioExceeds_orEqual(uncompressedSize, compressedSize, max) ==
    uncompressedSize \div compressedSize >= max

\* uncompressedSize / compressedSize > max, for compressedSize > 0: the
\* quotient of the two integers compared exactly, without the product
ratioExceeds(uncompressedSize, compressedSize, max) ==
    \/ uncompressedSize \div compressedSize > max
    \/ uncompressedSize \div compressedSize = max /\ uncompressedSize % compressedSize # 0

\* a pre-scan that looks at one entry only
scanEntries_firstEntryOnly(zipEntries, i, totalUncompressedSize) ==
    IF i > Len(zipEntries) THEN ""
    ELSE IF zipEntries[i].size > MAX_SINGLE_FILE_SIZE THEN "ZIP_ENTRY_TOO_LARGE"
    ELSE IF zipEntries[i].size > MAX_RATIO * zipEntries[i].compressedSize THEN "ZIP_RATIO"
    ELSE IF zipEntries[i].size > MAX_TOTAL_UNCOMPRESSED_SIZE THEN "ZIP_TOTAL_TOO_LARGE"
    ELSE ""

\* the pre-scan loop from entry i on, with the running total; "" when it passes
RECURSIVE scanEntries(_, _, _)
scanEntries(zipEntries, i, totalUncompressedSize) ==
    IF i > Len(zipEntries) THEN ""
    ELSE IF zipEntries[i].isDirectory THEN scanEntries(zipEntries, i + 1, totalUncompressedSize)
    ELSE LET uncompressedSize == zipEntries[i].size
             compressedSize == IF zipEntries[i].compressedSize = 0 THEN 1 ELSE zipEntries[i].compressedSize
             total == totalUncompressedSize + uncompressedSize
         IN IF uncompressedSize > MAX_SINGLE_FILE_SIZE THEN "ZIP_ENTRY_TOO_LARGE"
            ELSE IF ratioExceeds(uncompressedSize, compressedSize, MAX_RATIO) THEN "ZIP_RATIO"
            ELSE IF total > MAX_TOTAL_UNCOMPRESSED_SIZE THEN "ZIP_TOTAL_TOO_LARGE"
            ELSE scanEntries(zipEntries, i + 1, total)

isFileEntry(entry) == ~entry.isDirectory

\* the loop passes over directories (continue): it is run on the other entries
preScan(zipEntries) ==
    IF Len(zipEntries) > MAX_ENTRIES THEN "ZIP_TOO_MANY_ENTRIES"
    ELSE scanEntries(SelectSeq(zipEntries, isFileEntry), 1, 0)

\* a dispatch that knows conversations.json at the archive root only
entryParser_rootOnly(provider, entryName) ==
    IF provider = "chatgpt"
    THEN IF isOrEndsWith(entryName, "conversations", "json") /\ entryName.dirs = <<>> THEN "chatgpt"
         ELSE IF isOrEndsWith(entryName, "chat", "html") THEN "chatgpt_html"
         ELSE "none"
    ELSE IF provider = "claude" /\ endsWithJson(entryName) THEN "claude"
    ELSE IF provider = "gemini" /\ endsWithJson(entryName) THEN "gemini"
    ELSE "none"

\* the parser the extraction loop hands an entry to ("none": stored only)
entryParser(provider, entryName) ==
    IF provider = "chatgpt"
    THEN IF isOrEndsWith(entryName, "conversations", "json") THEN "chatgpt"
         ELSE IF isOrEndsWith(entryName, "chat", "html") THEN "chatgpt_html"
         ELSE "none"
    ELSE IF provider = "claude" /\ endsWithJson(entryName) THEN "claude"
    ELSE IF provider = "gemini" /\ endsWithJson(entryName) THEN "gemini"
    ELSE "none"

\* the parser a plain file is handed to
plainParser(provider) ==
    IF provider \in {"chatgpt", "claude", "gemini"} THEN provider ELSE "none"

isZip == isZipName(basename(cur.file.name))

zipEntries == BlobInfo(cur.file.bytes).entries

\* the first non-directory entry after entry i, or Len + 1 when there is none
nextFileEntry(entries, i) ==
    LET later == {j \in (i + 1)..Len(entries) : ~entries[j].isDirectory}
    IN IF later = {} THEN Len(entries) + 1 ELSE Min(later)

\* createIngestionRun(provider, `Import: ${filename}`)
\* (getDb opens the database at paths().dbPath: it throws before initPaths)
ImportStart(provider, file) ==
    /\ pc = "idle"
    /\ db.seq.runs < MaxRuns
    /\ IF pathsResult(_paths).threw
       THEN /\ ret' = Threw("import", NULL, "paths() called before initPaths()")
            /\ cur' = NoImport
            /\ pre' = NoSnapshot
            /\ UNCHANGED <<db, pc>>
       ELSE /\ db' = createIngestionRun(db, provider, basename(file.name))
            /\ cur' = [NoImport EXCEPT !.provider = provider, !.file = file, !.run = db.seq.runs + 1]
            /\ pc' = "storeParent"
            /\ pre' = Snapshot
            /\ ret' = [Importing EXCEPT !.run = db.seq.runs + 1]
    /\ UNCHANGED disk
    /\ UNCHANGED <<search, _paths>>

\* the call ends: it returns, or it throws out of the function
EndCall(result) ==
    /\ pc' = "idle"
    /\ cur' = cur
    /\ ret' = result

\* catch (err) { finalizeIngestionRun(run.id, 'failed', err.message); throw err }
CatchAndFail(d, err) ==
    /\ db' = finalizeIngestionRun(d, cur.run, "failed", err)
    /\ EndCall(Threw("import", cur.run, err))

\* const parentArtifact = storeRawArtifact(...), before the try block
ImportStoreParent ==
    /\ pc = "storeParent"
    /\ \E writeOk \in BOOLEAN :
        LET r == storeRawArtifact(db, disk, cur.run, cur.provider, IF isZip THEN "zip" ELSE "json",
                                  basename(cur.file.name), cur.file.bytes, NULL, NoPath, writeOk)
        IN /\ disk' = r.disk
           /\ db' = r.db
           /\ IF r.threw
              THEN EndCall(Threw("import", cur.run, r.err))
              ELSE /\ cur' = [cur EXCEPT !.parent = r.id, !.parentSkipped = r.skipped,
                                           !.parentStale = r.skipped /\ db.artifacts[r.id].stored_path \notin DOMAIN disk]
                   /\ pc' = IF isZip THEN "openZip" ELSE "parsePlain"
                   /\ ret' = Importing
    /\ UNCHANGED pre
    /\ UNCHANGED <<search, _paths>>

\* new AdmZip(buffer), the entry count and the pre-scan loop
ImportOpenZip ==
    /\ pc = "openZip"
    /\ IF BlobInfo(cur.file.bytes).kind # "zip"
       THEN CatchAndFail(db, "ZIP_CORRUPT")
       ELSE IF preScan(zipEntries) # ""
       THEN CatchAndFail(db, preScan(zipEntries))
       ELSE /\ pc' = "entry"
            /\ cur' = [cur EXCEPT !.idx = 1]
            /\ ret' = Importing
            /\ UNCHANGED db
    /\ UNCHANGED <<disk, pre>>
    /\ UNCHANGED <<search, _paths>>

\* the extraction loop: next entry, its child artifact
ImportEntryStore ==
    /\ pc = "entry"
    /\ IF cur.idx > Len(zipEntries)
       THEN /\ pc' = "finish"
            /\ ret' = Importing
            /\ UNCHANGED <<db, disk, cur>>
       ELSE IF zipEntries[cur.idx].isDirectory
       THEN \* if (entry.isDirectory) continue, for a run of directories
            /\ cur' = [cur EXCEPT !.idx = nextFileEntry(zipEntries, cur.idx)]
            /\ ret' = Importing
            /\ UNCHANGED <<db, disk, pc>>
       ELSE \E writeOk \in BOOLEAN :
              LET entry == zipEntries[cur.idx]
                  entryName == admZipEntryName(entry.rawName)
                  r == storeRawArtifact(db, disk, cur.run, cur.provider, extnameOrBin(entryName),
                                        basename(entryName), entry.data, cur.parent, entryName, writeOk)
              IN /\ disk' = r.disk
                 /\ IF r.threw
                    THEN /\ db' = finalizeIngestionRun(r.db, cur.run, "failed", r.err)
                         /\ pc' = "idle"
                         /\ cur' = [cur EXCEPT !.stored = @ + 1]
                         /\ ret' = Threw("import", cur.run, r.err)
                    ELSE /\ db' = r.db
                         /\ cur' = [cur EXCEPT !.child = r.id, !.stored = @ + 1]
                         /\ pc' = "entryParse"
                         /\ ret' = Importing
    /\ UNCHANGED pre
    /\ UNCHANGED <<search, _paths>>

\* the extraction loop: dispatch of the entry just stored
ImportEntryParse ==
    /\ pc = "entryParse"
    /\ \E txOk \in BOOLEAN :
        LET entry == zipEntries[cur.idx]
            parser == entryParser(cur.provider, admZipEntryName(entry.rawName))
            r == runParser(parser, db, cur.run, cur.child, entry.data, txOk)
            invoked == IF parser = "none" THEN 0 ELSE 1
        IN IF r.threw
           THEN /\ db' = finalizeIngestionRun(r.db, cur.run, "failed", r.err)
                /\ pc' = "idle"
                /\ cur' = [cur EXCEPT !.parsed = @ + invoked]
                /\ ret' = Threw("import", cur.run, r.err)
           ELSE /\ db' = r.db
                /\ cur' = [cur EXCEPT !.idx = @ + 1, !.child = NULL, !.parsed = @ + invoked]
                /\ pc' = "entry"
                /\ ret' = Importing
    /\ UNCHANGED <<disk, pre>>
    /\ UNCHANGED <<search, _paths>>

\* the plain file: buffer.toString('utf-8') to the provider's parser
ImportParsePlain ==
    /\ pc = "parsePlain"
    /\ \E txOk \in BOOLEAN :
        LET r == runParser(plainParser(cur.provider), db, cur.run, cur.parent, cur.file.bytes, txOk)
            invoked == IF plainParser(cur.provider) = "none" THEN 0 ELSE 1
        IN /\ cur' = [cur EXCEPT !.parsed = @ + invoked]
           /\ IF r.threw
              THEN /\ db' = finalizeIngestionRun(r.db, cur.run, "failed", r.err)
                   /\ pc' = "idle"
                   /\ ret' = Threw("import", cur.run, r.err)
              ELSE /\ db' = r.db
                   /\ pc' = "finish"
                   /\ ret' = Importing
    /\ UNCHANGED <<disk, pre>>
    /\ UNCHANGED <<search, _paths>>

\* finalizeIngestionRun(run.id, 'complete'); return {success, runId, artifactId}
ImportFinish ==
    /\ pc = "finish"
    /\ db' = finalizeIngestionRun(db, cur.run, "complete", "")
    /\ EndCall(Returned("import", cur.run, cur.parent, cur.parentSkipped))
    /\ UNCHANGED <<disk, pre>>
    /\ UNCHANGED <<search, _paths>>

\* ------------------------------------------------------------------------
\* ipcHandlers.ts: the RPC handlers
\* ------------------------------------------------------------------------

RpcLabel == [stem |-> "rpc", ext |-> ""]

\* the same bytes under two names; they are also an entry of chatgpt.zip
RpcFiles == { File(Name(<<>>, "a", "json"), "readme"),
              File(Name(<<"tmp">>, "b", "json"), "readme") }

\* vault:ingest:start
RpcIngestStart(provider) ==
    /\ pc = "idle"
    /\ db.seq.runs < MaxRuns
    /\ db' = createIngestionRun(db, provider, RpcLabel)
    /\ ret' = Returned("start", db.seq.runs + 1, NULL, FALSE)
    /\ pre' = NoSnapshot
    /\ cur' = NoImport
    /\ UNCHANGED <<disk, pc>>
    /\ UNCHANGED <<search, _paths>>

\* vault:artifact:store
RpcArtifactStore(runId, provider, file) ==
    /\ pc = "idle"
    /\ \E writeOk \in BOOLEAN :
        LET r == storeRawArtifact(db, disk, runId, provider, "json", file.name, file.bytes,
                                  NULL, NoPath, writeOk)
        IN /\ db' = r.db
           /\ disk' = r.disk
           /\ ret' = IF r.threw THEN Threw("store", NULL, r.err)
                     ELSE Returned("store", NULL, r.id, r.skipped)
    /\ pre' = NoSnapshot
    /\ cur' = NoImport
    /\ UNCHANGED pc
    /\ UNCHANGED <<search, _paths>>

\* vault:ingest:finalize
RpcIngestFinalize(runId, status) ==
    /\ pc = "idle"
    /\ db' = finalizeIngestionRun(db, runId, status, IF status = "failed" THEN "rpc error" ELSE "")
    /\ ret' = Returned("finalize", NULL, NULL, FALSE)
    /\ pre' = NoSnapshot
    /\ cur' = NoImport
    /\ UNCHANGED <<disk, pc>>
    /\ UNCHANGED <<search, _paths>>

\* vault:wipe
wipeVault ==
    /\ pc = "idle"
    /\ \E readOk, txOk \in BOOLEAN :
       \E stuck \in {S \in SUBSET DOMAIN disk : Cardinality(S) <= MaxStuck} :
        LET r == wipeVaultResult(db, disk, readOk, stuck, txOk)
        IN /\ db' = r.db
           /\ disk' = r.disk
           /\ ret' = IF r.threw THEN Threw("wipe", NULL, r.err) ELSE Returned("wipe", NULL, NULL, FALSE)
    /\ pre' = NoSnapshot
    /\ cur' = NoImport
    /\ UNCHANGED pc
    /\ UNCHANGED <<search, _paths>>

\* SELECT ... FROM messages_fts f JOIN messages m ON f.rowid = m.id
\* JOIN threads t ON m.thread_id = t.id WHERE messages_fts MATCH ?, for a
\* term that every message of the model contains
searchMessages(d) ==
    {m \in d.fts : m \in DOMAIN d.messages /\ d.messages[m].thread_id \in DOMAIN d.threads}

\* a handler that would also be dispatched at the await of the extraction loop
dispatchable_atAwait == pc \in {"idle", "entry"}

\* the event loop dispatches an IPC handler when no task is running: the
\* continuations of importFileHeadless after its awaits are microtasks of the
\* running task (the parsers never suspend), so not before the import ended
dispatchable == pc = "idle"

\* the renderer invokes vault:search; the request waits in the event loop
SearchRequest ==
    /\ ~search.pending
    /\ search' = [pending |-> TRUE, run |-> IF pc = "idle" THEN NULL ELSE cur.run,
                  done |-> FALSE, hits |-> {}]
    /\ UNCHANGED <<db, disk, pc, cur, ret, pre, _paths>>

\* vault:search
RpcSearch ==
    /\ search.pending
    /\ dispatchable
    /\ search' = [search EXCEPT !.pending = FALSE, !.done = TRUE, !.hits = searchMessages(db)]
    /\ UNCHANGED <<db, disk, pc, cur, ret, pre, _paths>>

NextSearch == SearchRequest \/ RpcSearch

\* the value a call of the paths module returned
ReturnedValue(op, value) == [Returned(op, NULL, NULL, FALSE) EXCEPT !.id = value]

\* initPaths(userDataDir), from any module
initPaths(userDataDir) ==
    /\ pc = "idle"
    /\ LET r == initPathsResult(_paths, userDataDir)
       IN /\ _paths' = r.paths
          /\ ret' = IF r.threw THEN Threw("initPaths", NULL, "initPaths() called twice")
                     ELSE ReturnedValue("initPaths", r.value)
    /\ UNCHANGED <<db, disk, pc, cur, pre, search>>

\* paths(), from any module
paths ==
    /\ pc = "idle"
    /\ LET r == pathsResult(_paths)
       IN ret' = IF r.threw THEN Threw("paths", NULL, "paths() called before initPaths()")
                 ELSE ReturnedValue("paths", r.value)
    /\ UNCHANGED <<db, disk, pc, cur, pre, search, _paths>>

\* main.ts initVault, at a later start of the application on the same vault
initVault ==
    /\ pc = "idle"
    /\ IF pathsResult(_paths).threw
       THEN /\ ret' = Threw("initVault", NULL, "paths() called before initPaths()")
            /\ UNCHANGED db
       ELSE /\ db' = initDb(db)
            /\ ret' = Returned("initVault", NULL, NULL, FALSE)
    /\ pre' = NoSnapshot
    /\ cur' = NoImport
    /\ UNCHANGED <<disk, pc, search, _paths>>

\* ------------------------------------------------------------------------
\* main.ts, ipcHandlers.ts: registration of the RPC handlers
\* ------------------------------------------------------------------------

\* the channels registerHandlers registers, in the order of its statements
Channels ==
    <<"vault:diagnostics:get", "vault:status", "vault:search", "vault:ingest:start",
      "vault:artifact:store", "vault:ingest:finalize", "vault:import:file", "vault:wipe">>

\* handlers: the registrations ipcMain accepted, in their order
NoHandlers == [handlers |-> <<>>, threw |-> FALSE, err |-> "", window |-> FALSE]

\* the listeners ipcMain holds for a channel
ListenersOf(reg, channel) ==
    {reg.handlers[i].listener : i \in {j \in 1..Len(reg.handlers) : reg.handlers[j].channel = channel}}

\* ipcMain.handle(channel, listener): a channel has at most one handler, and
\* registering a second one throws; a statement after a throw is not reached
ipcMain_handle(reg, channel, listener) ==
    IF reg.threw THEN reg
    ELSE IF ListenersOf(reg, channel) # {}
    THEN [reg EXCEPT !.threw = TRUE,
                     !.err = "Attempted to register a second handler for " \o channel]
    ELSE [reg EXCEPT !.handlers = Append(@, [channel |-> channel, listener |-> listener])]

\* the evaluation of the module main.ts: the placeholder handler of vault:status
MainModule == ipcMain_handle(NoHandlers, "vault:status", "main.ts")

RECURSIVE registerFrom(_, _)
registerFrom(reg, i) ==
    IF i > Len(Channels) THEN reg
    ELSE registerFrom(ipcMain_handle(reg, Channels[i], "registerHandlers"), i + 1)

\* registerHandlers()
registerHandlers(reg) == registerFrom(reg, 1)

\* createWindow(), the statement after registerHandlers()
createWindow(reg) == IF reg.threw THEN reg ELSE [reg EXCEPT !.window = TRUE]

\* what the handler of vault:status returns
StatusResult(listener, configured) ==
    IF listener = "main.ts"
    THEN [fields |-> {"status", "localOnly"}, vaultPath |-> NoPath]
    ELSE [fields |-> {"status", "localOnly", "vaultPath"},
          vaultPath |-> pathsResult(configured).value.artifactsDir]

\* a start of the application without smoke arguments: the modules are
\* evaluated (initPaths, the placeholder handler), then the callback of
\* app.whenReady runs initVault, registerHandlers and createWindow
whenReady ==
    /\ pc = "idle"
    /\ _paths' = initPathsResult(NoPaths, <<Dir("home"), Dir("userData")>>).paths
    /\ db' = initDb(db)
    /\ ret' = ReturnedValue("whenReady", createWindow(registerHandlers(MainModule)))
    /\ pre' = NoSnapshot
    /\ cur' = NoImport
    /\ search' = NoSearch
    /\ UNCHANGED <<disk, pc>>

\* the process is killed while an import is in progress: what was committed
\* stays in the database and on disk, the state of the modules is lost
Interrupt ==
    /\ pc # "idle"
    /\ pc' = "idle"
    /\ ret' = [NoCall EXCEPT !.op = "interrupted", !.run = cur.run]
    /\ cur' = NoImport
    /\ pre' = NoSnapshot
    /\ search' = NoSearch
    /\ _paths' = NoPaths
    /\ UNCHANGED <<db, disk>>

\* a migration list with the versions 1..k; the script of version `bad` fails
\* (0: none does)
MigrationList(k, bad) == [i \in 1..k |-> Migration(i, i # bad)]

Reverse(s) == [i \in 1..Len(s) |-> s[Len(s) + 1 - i]]

\* opts.migrations and opts.latest: the production list extended with
\* test-only migrations, in ascending or descending order
MigrateOptions ==
    LET lists == {MigrationList(k, bad) : k \in 1..MaxVersion, bad \in 0..MaxVersion}
    IN [migrations : lists \cup {Reverse(l) : l \in lists}, latest : 1..MaxVersion]

\* migrate(db, opts)
Migrate(opts) ==
    /\ pc = "idle"
    /\ LET r == migrate(db, opts.migrations, opts.latest)
       IN /\ db' = r.db
          /\ ret' = IF r.threw THEN Threw("migrate", NULL, "migration failed")
                     ELSE Returned("migrate", NULL, NULL, FALSE)
    /\ UNCHANGED <<disk, pc, cur, pre, search, _paths>>

FtsTriggers == {"messages_ai", "messages_ad", "messages_au"}

\* verify_migrations.js Case 5: DROP TRIGGER IF EXISTS on some of the triggers
dropTriggers(dropped) ==
    /\ pc = "idle"
    /\ dropped \cap db.schema.objects # {}
    /\ db' = [db EXCEPT !.schema.objects = @ \ dropped]
    /\ ret' = Returned("dropTriggers", NULL, NULL, FALSE)
    /\ UNCHANGED <<disk, pc, cur, pre, search, _paths>>

\* verify_migrations.js insertTestMessage: a thread and one message of it
insertTestMessage ==
    /\ pc = "idle"
    /\ readSchemaVersion(db) >= 1
    /\ db.seq.messages < MaxRuns
    /\ LET d == insertThread(db, "test", NULL, NULL)
       IN db' = insertMessage(d, d.seq.threads, "test", 0, NULL, NULL)
    /\ ret' = Returned("insertTestMessage", NULL, NULL, FALSE)
    /\ UNCHANGED <<disk, pc, cur, pre, search, _paths>>

\* ------------------------------------------------------------------------
\* diagnostics.ts: getDiagnostics
\* ------------------------------------------------------------------------

\* run.error_message.includes(fragment): the four messages of the pre-scan
\* are the only ones thrown during an import that hold one of the fragments
includes(errorMessage, fragment) ==
    \/ errorMessage = "ZIP_TOO_MANY_ENTRIES" /\ fragment = "too many files"
    \/ errorMessage = "ZIP_ENTRY_TOO_LARGE" /\ fragment = "larger than 100MB"
    \/ errorMessage = "ZIP_RATIO" /\ fragment = "extreme compression ratio"
    \/ errorMessage = "ZIP_TOTAL_TOO_LARGE" /\ fragment = "exceeds 1GB limit"

\* sanitized_recent_runs: error_code of one run ("": null)
error_code(run) ==
    IF run.status = "failed" /\ run.error_message # ""
    THEN IF includes(run.error_message, "too many files") THEN "ZIP_TOO_MANY_ENTRIES"
         ELSE IF includes(run.error_message, "larger than 100MB") THEN "ZIP_ENTRY_TOO_LARGE"
         ELSE IF includes(run.error_message, "extreme compression ratio") THEN "ZIP_CORRUPT"
         ELSE IF includes(run.error_message, "exceeds 1GB limit") THEN "ZIP_TOTAL_TOO_LARGE"
         ELSE "UNKNOWN_ERROR"
    ELSE ""

\* SELECT ... FROM ingestion_runs ORDER BY started_at DESC LIMIT 5
recent_runs(d) == {id \in DOMAIN d.runs : Cardinality({j \in DOMAIN d.runs : j > id}) < 5}

\* a run of the report that also carries the run's source label
sanitized_run_withLabel(d, id) ==
    [provider |-> d.runs[id].provider, started_at |-> id,
     completed_at |-> d.runs[id].completed_at, status |-> d.runs[id].status,
     error_code |-> error_code(d.runs[id]),
     error_detail |-> d.runs[id].source_label]

\* sanitized_recent_runs: one run of the report (started_at: the runs are
\* created one after the other; error_detail: the first 100 characters of
\* the message, which holds no path in any message of the model)
sanitized_run(d, id) ==
    [provider |-> d.runs[id].provider, started_at |-> id,
     completed_at |-> d.runs[id].completed_at, status |-> d.runs[id].status,
     error_code |-> error_code(d.runs[id]),
     error_detail |-> IF d.runs[id].status = "failed" THEN d.runs[id].error_message ELSE ""]

RECURSIVE SumBytes(_, _)
SumBytes(f, S) ==
    IF S = {} THEN 0
    ELSE LET k == CHOOSE x \in S : TRUE IN f[k] + SumBytes(f, S \ {k})

\* the sizes fs.statSync gives for the files of readdirSync(artifactsDir)
artifacts_total_bytes(fs) ==
    LET files == readdirSync(fs, _paths.artifactsDir)
    IN SumBytes([f \in files |-> byteLength(fs[f])], files)

\* SELECT status, COUNT(*) FROM ingestion_runs GROUP BY status
run_stats(d) ==
    LET statuses == {d.runs[id].status : id \in DOMAIN d.runs}
    IN [st \in statuses |-> Cardinality({id \in DOMAIN d.runs : d.runs[id].status = st})]

\* SELECT provider, artifact_type, COUNT(*), SUM(byte_size) FROM raw_artifacts GROUP BY ...
artifact_counts(d) ==
    LET groups == {<<d.artifacts[a].provider, d.artifacts[a].artifact_type>> : a \in DOMAIN d.artifacts}
        rowsOf(g) == {a \in DOMAIN d.artifacts :
                        <<d.artifacts[a].provider, d.artifacts[a].artifact_type>> = g}
    IN [g \in groups |->
          [count |-> Cardinality(rowsOf(g)),
           total_bytes |-> SumBytes([a \in rowsOf(g) |-> d.artifacts[a].byte_size], rowsOf(g))]]

\* the report, without the fields that describe the application and the
\* machine (generated_at, app, runtime); db_size: fs.statSync(dbPath).size
getDiagnostics(d, fs, db_size) ==
    [vault |-> [schema_version |-> readSchemaVersion(d), db_size_bytes |-> db_size,
                artifacts_total_bytes |-> artifacts_total_bytes(fs), fts_enabled |-> TRUE],
     ingestion |-> [runs_summary |-> run_stats(d),
                    recent_runs |-> [id \in recent_runs(d) |-> sanitized_run(d, id)]],
     artifacts |-> artifact_counts(d),
     health |-> [sqlite_integrity_check |-> "ok"]]

\* sizes of the database file
DbSizes == {4096, 8192}

\* vault:diagnostics:get
RpcDiagnosticsGet ==
    /\ pc = "idle"
    /\ \E db_size \in DbSizes : ret' = ReturnedValue("diagnostics", getDiagnostics(db, disk, db_size))
    /\ pre' = NoSnapshot
    /\ cur' = NoImport
    /\ UNCHANGED <<db, disk, pc>>
    /\ UNCHANGED <<search, _paths>>

NextImportOf(calls) ==
    \/ \E c \in calls : ImportStart(c.provider, c.file)
    \/ ImportStoreParent
    \/ ImportOpenZip
    \/ ImportEntryStore
    \/ ImportEntryParse
    \/ ImportParsePlain
    \/ ImportFinish

NextRunRpc ==
    \/ RpcIngestStart("chatgpt")
    \/ \E runId \in 1..MaxRuns, status \in {"complete", "failed"} : RpcIngestFinalize(runId, status)

NextStoreRpc ==
    \/ RpcIngestStart("chatgpt")
    \/ \E runId \in 1..MaxRuns, file \in RpcFiles : RpcArtifactStore(runId, "chatgpt", file)

\* every handler of the main process, its start and its interruption
Next ==
    \/ NextImportOf(ImportCalls) \/ NextRunRpc \/ NextStoreRpc \/ NextSearch \/ wipeVault
    \/ initVault \/ RpcDiagnosticsGet
    \/ whenReady \/ Interrupt

Spec == Init /\ [][Next]_vars

\* imports and wipes only (the user's two buttons)
SpecImport == Init /\ [][NextImportOf(ImportCalls) \/ wipeVault]_vars

\* the archives at, and one past, the ZIP limits, and one plain file
ZipCalls ==
    { Call("chatgpt", File(Name(<<"home">>, "atlimit", "zip"), "atlimit.zip")),
      Call("chatgpt", File(Name(<<"home">>, "toomany", "zip"), "toomany.zip")),
      Call("chatgpt", File(Name(<<"home">>, "toolarge", "zip"), "toolarge.zip")),
      Call("chatgpt", File(Name(<<"home">>, "ratio101", "zip"), "ratio101.zip")),
      Call("chatgpt", File(Name(<<"home">>, "overtotal", "zip"), "overtotal.zip")),
      Call("chatgpt", File(Name(<<"home">>, "zerocsize", "zip"), "zerocsize.zip")),
      Call("chatgpt", File(Name(<<"home">>, "bomb", "zip"), "bomb.zip")),
      Call("chatgpt", File(Name(<<"home">>, "chatgpt", "json"), "chatgpt.json")) }

\* the imports that exercise the four parsers, with readable and unreadable content
ParseCalls ==
    { Call("chatgpt", File(Name(<<"home">>, "poison", "json"), "poison.json")),
      Call("chatgpt", File(Name(<<"home">>, "poison", "zip"), "poison.zip")),
      Call("chatgpt", File(Name(<<"home">>, "chatgpt", "zip"), "chatgpt.zip")),
      Call("chatgpt", File(Name(<<"home">>, "drift", "zip"), "drift.zip")),
      Call("chatgpt", File(Name(<<"home">>, "object", "json"), "object.json")),
      Call("claude", File(Name(<<"home">>, "nofields", "json"), "nofields.json")),
      Call("claude", File(Name(<<"home">>, "claude", "ZIP"), "claude.zip")),
      Call("gemini", File(Name(<<"home">>, "gemini", "json"), "gemini.json")),
      Call("gemini", File(Name(<<"home">>, "bad", "json"), "garbage")) }

\* imports through every parser
SpecParse == Init /\ [][NextImportOf(ParseCalls)]_vars

\* a JSON file and ZIPs with several parseable entries
SearchCalls ==
    { Call("chatgpt", File(Name(<<"home">>, "chatgpt", "json"), "chatgpt.json")),
      Call("chatgpt", File(Name(<<"home">>, "chatgpt", "zip"), "chatgpt.zip")),
      Call("chatgpt", File(Name(<<"home">>, "poison", "zip"), "poison.zip")) }

\* imports, and searches requested at any moment
SpecSearch == Init /\ [][NextImportOf(SearchCalls) \/ NextSearch]_vars

\* imports of the archives around the ZIP limits
SpecZip == Init /\ [][NextImportOf(ZipCalls)]_vars

\* a JSON file, and ZIPs one of whose entries is rolled back
FtsCalls ==
    { Call("chatgpt", File(Name(<<"home">>, "chatgpt", "json"), "chatgpt.json")),
      Call("chatgpt", File(Name(<<"home">>, "poison", "json"), "poison.json")),
      Call("chatgpt", File(Name(<<"home">>, "poison", "zip"), "poison.zip")) }

\* imports, wipes and restarts of the application
SpecFts == Init /\ [][NextImportOf(FtsCalls) \/ wipeVault \/ initVault]_vars

\* a process in which initPaths has not been called yet
InitBoot ==
    /\ db = EmptyDb
    /\ disk = EmptyFn
    /\ pc = "idle"
    /\ cur = NoImport
    /\ ret = NoCall
    /\ pre = NoSnapshot
    /\ search = NoSearch
    /\ _paths = NoPaths

\* a plain file and a ZIP
PathCalls ==
    { Call("chatgpt", File(Name(<<"home">>, "chatgpt", "json"), "chatgpt.json")),
      Call("chatgpt", File(Name(<<"home">>, "chatgpt", "zip"), "chatgpt.zip")) }

\* one process: calls of initPaths and paths in any order, and imports
SpecPaths ==
    InitBoot /\ [][\/ \E userDataDir \in UserDataDirs : initPaths(userDataDir)
                  \/ paths
                  \/ NextImportOf(PathCalls)]_vars

\* an archive with a '../' entry, and a plain file
ContainCalls ==
    { Call("claude", File(Name(<<"home">>, "slip", "zip"), "slip.zip")),
      Call("claude", File(Name(<<"home">>, "claude", "json"), "claude.json")) }

\* file names a caller of vault:artifact:store can pass, for the same bytes:
\* '../../etc/passwd', '/etc/shadow', 'a/../../../../x.json' and 'a/..'
HostileFiles ==
    { File(Name(<<"..", "..", "etc">>, "passwd", ""), "readme"),
      File([Name(<<"etc">>, "shadow", "") EXCEPT !.abs = TRUE], "readme"),
      File(Name(<<"a", "..", "..", "..", "..">>, "x", "json"), "readme"),
      File(Name(<<"a">>, "..", ""), "readme") }

\* imports, and the artifact RPC called with hostile file names
SpecContain ==
    Init /\ [][\/ NextImportOf(ContainCalls)
              \/ \E runId \in 1..MaxRuns, file \in HostileFiles :
                     RpcArtifactStore(runId, "chatgpt", file)]_vars

\* a database file that migrate has not seen yet
InitFresh ==
    /\ db = NewDatabase
    /\ disk = EmptyFn
    /\ pc = "idle"
    /\ cur = NoImport
    /\ ret = NoCall
    /\ pre = NoSnapshot
    /\ search = NoSearch
    /\ _paths = VaultPaths(<<Dir("home"), Dir("userData")>>)

\* the migration qualification: migrate calls with test-injected lists and
\* targets on a fresh database, and rows inserted between them
\* archives imported under each provider tag, and a plain file
DispatchCalls ==
    { Call(provider, File(Name(<<"home">>, "export", "zip"), bytes)) :
          provider \in Providers, bytes \in {"chatgpt.zip", "claude.zip"} }
    \cup { Call("gemini", File(Name(<<"home">>, "gemini", "json"), "gemini.json")) }

SpecDispatch == Init /\ [][NextImportOf(DispatchCalls)]_vars

\* files that import successfully into an empty vault: a plain export, an
\* archive with two parsed entries, an archive sharing an entry's bytes
ReimportCalls ==
    { Call("claude", File(Name(<<"home">>, "claude", "json"), "claude.json")),
      Call("chatgpt", File(Name(<<"home">>, "chatgpt", "zip"), "chatgpt.zip")),
      Call("claude", File(Name(<<"home">>, "slip", "zip"), "slip.zip")) }

SpecReimport == Init /\ [][NextImportOf(ReimportCalls) \/ wipeVault]_vars

\* an import that succeeds, and imports that fail: in the parser of a plain
\* file, in the parser of a later entry, in the pre-scan
FrameCalls ==
    { Call("claude", File(Name(<<"home">>, "claude", "json"), "claude.json")),
      Call("claude", File(Name(<<"home">>, "bad", "json"), "garbage")),
      Call("claude", File(Name(<<"home">>, "claude", "ZIP"), "claude.zip")),
      Call("chatgpt", File(Name(<<"home">>, "bomb", "zip"), "bomb.zip")) }

\* the bytes of an export stored through the RPC under the export's name
FrameFile == File(Name(<<>>, "claude", "json"), "claude.json")

SpecFrame ==
    Init /\ [][\/ NextImportOf(FrameCalls)
               \/ wipeVault
               \/ \E runId \in 1..MaxRuns : RpcArtifactStore(runId, "claude", FrameFile)]_vars

\* a plain export, an archive, an archive refused by the pre-scan and a
\* file that is not JSON, with the diagnostics request
DiagCalls ==
    { Call("claude", File(Name(<<"home">>, "claude", "json"), "claude.json")),
      Call("chatgpt", File(Name(<<"home">>, "chatgpt", "zip"), "chatgpt.zip")),
      Call("chatgpt", File(Name(<<"home">>, "bomb", "zip"), "bomb.zip")),
      Call("claude", File(Name(<<"home">>, "bad", "json"), "garbage")) }

SpecDiag == Init /\ [][NextImportOf(DiagCalls) \/ RpcDiagnosticsGet]_vars

\* exports in which the parsers pass over source items
PositionCalls ==
    { Call("chatgpt", File(Name(<<"home">>, "gaps", "zip"), "gaps.zip")),
      Call("gemini", File(Name(<<"home">>, "gemini", "json"), "gemini-gaps.json")),
      Call("claude", File(Name(<<"home">>, "claude", "json"), "claude.json")) }

SpecPositions == Init /\ [][NextImportOf(PositionCalls)]_vars

\* the two ways a run is created (an import, vault:ingest:start) and the wipe
RunIdCalls ==
    { Call("claude", File(Name(<<"home">>, "claude", "json"), "claude.json")),
      Call("claude", File(Name(<<"home">>, "slip", "zip"), "slip.zip")) }

SpecRunIds == Init /\ [][NextImportOf(RunIdCalls) \/ RpcIngestStart("chatgpt") \/ wipeVault]_vars

\* imports that can be interrupted, the next start of the application
\* (initPaths, initVault) and searches
CrashCalls ==
    { Call("claude", File(Name(<<"home">>, "claude", "json"), "claude.json")),
      Call("claude", File(Name(<<"home">>, "claude", "ZIP"), "claude.zip")) }

SpecCrash ==
    Init /\ [][\/ NextImportOf(CrashCalls)
               \/ Interrupt
               \/ initPaths(<<Dir("home"), Dir("userData")>>)
               \/ initVault
               \/ NextSearch]_vars

\* starts of the application between imports that can be interrupted
SpecStartup == Init /\ [][NextImportOf(CrashCalls) \/ Interrupt \/ whenReady]_vars

SpecMigrate ==
    InitFresh /\ [][\/ \E opts \in MigrateOptions : Migrate(opts)
                   \/ insertTestMessage
                   \/ \E dropped \in SUBSET FtsTriggers : dropTriggers(dropped)]_vars

\* imports, wipes and the run RPCs (vault:ingest:start, vault:ingest:finalize)
SpecRuns == Init /\ [][NextImportOf(ImportCalls) \/ NextRunRpc \/ wipeVault]_vars

\* the imports that share bytes with one another and with the artifact RPC
StoreCalls == {c \in ImportCalls : c.file.bytes \in {"claude.json", "claude.zip", "chatgpt.zip", "garbage"}}

\* imports and the artifact RPC (vault:ingest:start, vault:artifact:store), no wipe
SpecStore == Init /\ [][NextImportOf(StoreCalls) \/ NextStoreRpc]_vars

\* ------------------------------------------------------------------------
\* Properties
\* ------------------------------------------------------------------------

\* an importFileHeadless call has just returned or thrown
ImportEnded == pc = "idle" /\ ret.op = "import"

ThreadsOfRun(id) == {t \in DOMAIN db.threads : db.threads[t].ingestion_run_id = id}

MessagesOfRun(id) == {m \in DOMAIN db.messages : db.messages[m].ingestion_run_id = id}

\* C1: every ingestion run whose status is 'failed' has no thread and no
\* message carrying its ingestion_run_id.
C1_FailedRunHasNoRows ==
    \A id \in DOMAIN db.runs :
        db.runs[id].status = "failed" => ThreadsOfRun(id) = {} /\ MessagesOfRun(id) = {}

\* the raw header name is absolute or has a '..' component
hasTraversal(n) == n.abs \/ \E i \in 1..Len(n.dirs) : n.dirs[i] = ".."

\* a ZIP with a non-directory entry whose raw name is absolute or has a '..' component
HasSlipEntry(bytes) ==
    /\ BlobInfo(bytes).kind = "zip"
    /\ \E i \in 1..Len(BlobInfo(bytes).entries) :
        /\ ~BlobInfo(bytes).entries[i].isDirectory
        /\ hasTraversal(BlobInfo(bytes).entries[i].rawName)

\* C2: an import of a ZIP with a traversal entry, once its parent artifact is
\* stored, fails in the pre-scan: it throws, the run ends 'failed', no child
\* artifact is stored and no parser is invoked.
C2_SlipFailsInPreScan ==
    (ImportEnded /\ cur.parent # NULL /\ isZip /\ HasSlipEntry(cur.file.bytes)) =>
        /\ ret.threw
        /\ db.runs[cur.run].status = "failed"
        /\ cur.stored = 0
        /\ cur.parsed = 0

\* the bytes of the import just ended were the file of an earlier import
ImportedBefore ==
    \E a \in DOMAIN db.artifacts :
        /\ db.artifacts[a].sha256 = Sha256(cur.file.bytes)
        /\ db.artifacts[a].parent_artifact_id = NULL
        /\ db.artifacts[a].ingestion_run_id # cur.run
        /\ db.runs[db.artifacts[a].ingestion_run_id].status = "complete"

\* C3: an import of bytes already imported and not wiped since reports the
\* parent artifact as already stored and leaves the numbers of threads and
\* messages as they were before it.
C3_ReimportSkipsProcessing ==
    (ImportEnded /\ cur.parent # NULL /\ ImportedBefore) =>
        /\ cur.parentSkipped
        /\ Snapshot = pre

\* C4: a run row that is 'complete' or 'failed' does not change in any column
\* for as long as it exists.
C4_FinalRunRowIsFrozen ==
    [][\A id \in DOMAIN db.runs :
          (db.runs[id].status # "running" /\ id \in DOMAIN db'.runs) => db'.runs[id] = db.runs[id]]_vars

\* C5: an import call that has ended leaves its run 'complete' if it returned
\* and 'failed' if it threw.
C5_EndedImportFinalizedRun ==
    ImportEnded => db.runs[cur.run].status = (IF ret.threw THEN "failed" ELSE "complete")

RowsOf(bytes) == {a \in DOMAIN db.artifacts : db.artifacts[a].sha256 = Sha256(bytes)}

FilesOf(bytes) == {f \in DOMAIN disk : disk[f] = bytes}

\* C6: no two raw_artifacts rows share a sha256, and a byte sequence that has
\* a row has exactly one file in the artifacts directory.
C6_OneRowOneFilePerBytes ==
    \A b \in Blobs :
        /\ Cardinality(RowsOf(b)) <= 1
        /\ RowsOf(b) # {} => Cardinality(FilesOf(b)) = 1

\* C7: before any wipe, every raw_artifacts row has a file at its stored_path
\* and the SHA-256 of that file's content is the row's sha256.
C7_ArtifactHashIntegrity ==
    \A a \in DOMAIN db.artifacts :
        /\ db.artifacts[a].stored_path \in DOMAIN disk
        /\ Sha256(disk[db.artifacts[a].stored_path]) = db.artifacts[a].sha256

\* artifact rows of a failed run exist, and an artifact store has just thrown
C7_Witness ==
    /\ ret.op = "store" /\ ret.threw
    /\ Count(db.artifacts) >= 2
    /\ \E a \in DOMAIN db.artifacts : db.runs[db.artifacts[a].ingestion_run_id].status = "failed"

ParentFilePresent ==
    /\ db.artifacts[cur.parent].stored_path \in DOMAIN disk
    /\ Sha256(disk[db.artifacts[cur.parent].stored_path]) = db.artifacts[cur.parent].sha256

C9_WipeFailsBeforeDb ==
    [][ret'.op = "wipe" => /\ ret'.threw => db' = db
                           /\ db' # db => disk' = EmptyFn]_vars

\* a wipe has thrown after deleting files: rows are kept, fewer files than rows
C9_Witness ==
    /\ ret.op = "wipe" /\ ret.threw
    /\ Count(db.messages) > 0
    /\ Count(disk) > 0
    /\ Count(disk) < Count(db.artifacts)

TablesEmpty(d) ==
    /\ d.messages = EmptyFn /\ d.threads = EmptyFn /\ d.artifacts = EmptyFn /\ d.runs = EmptyFn
    /\ d.fts = {}

\* C10: a wipeVault call that returns normally leaves no file and no row in
\* messages, threads, raw_artifacts and ingestion_runs; a wipe either empties
\* all four tables or changes none of them.
C10_WipeCompleteness ==
    [][ret'.op = "wipe" => /\ ~ret'.threw => disk' = EmptyFn /\ TablesEmpty(db')
                           /\ db' = db \/ TablesEmpty(db')]_vars

\* a wipe has returned in a vault that held threads and artifacts
C10_Witness ==
    /\ ret.op = "wipe" /\ ~ret.threw
    /\ db.seq.threads > 0 /\ db.seq.artifacts > 0 /\ db.seq.runs = MaxRuns

\* the import just ended was of a ZIP that AdmZip opened, its parent stored
ZipImportEnded ==
    ImportEnded /\ cur.parent # NULL /\ isZip /\ BlobInfo(cur.file.bytes).kind = "zip"

RECURSIVE SumSizes(_)
SumSizes(entries) == IF entries = <<>> THEN 0 ELSE Head(entries).size + SumSizes(Tail(entries))

\* size / compressedSize <= MAX_RATIO on the declared sizes (0 / 0 passes)
DeclaredRatioWithin(e) ==
    IF e.compressedSize = 0 THEN e.size = 0
    ELSE e.size \div e.compressedSize < MAX_RATIO
         \/ (e.size \div e.compressedSize = MAX_RATIO /\ e.size % e.compressedSize = 0)

\* the same with a declared compressed size of 0 counted as 1
CountedRatioWithin(e) ==
    DeclaredRatioWithin([e EXCEPT !.compressedSize = IF @ = 0 THEN 1 ELSE @])

\* entry count, single sizes and total of an archive are within the limits
SizesWithin(entries) ==
    LET files == SelectSeq(entries, isFileEntry)
    IN /\ Len(entries) <= MAX_ENTRIES
       /\ \A i \in 1..Len(files) : files[i].size <= MAX_SINGLE_FILE_SIZE
       /\ SumSizes(files) <= MAX_TOTAL_UNCOMPRESSED_SIZE

DeclaredLimitsHold(entries) ==
    LET files == SelectSeq(entries, isFileEntry)
    IN SizesWithin(entries) /\ \A i \in 1..Len(files) : DeclaredRatioWithin(files[i])

LimitsHold(entries) ==
    LET files == SelectSeq(entries, isFileEntry)
    IN SizesWithin(entries) /\ \A i \in 1..Len(files) : CountedRatioWithin(files[i])

ArtifactsOfRun(id) == {a \in DOMAIN db.artifacts : db.artifacts[a].ingestion_run_id = id}

\* C11: an import of a ZIP that breaks a limit (count, single size, ratio,
\* total) fails before the extraction loop: the run is 'failed', it stored no
\* artifact but the parent, decompressed no entry and invoked no parser.
C11_LimitFailsBeforeExtraction ==
    (ZipImportEnded /\ ~LimitsHold(zipEntries)) =>
        /\ ret.threw
        /\ db.runs[cur.run].status = "failed"
        /\ ArtifactsOfRun(cur.run) \subseteq {cur.parent}
        /\ cur.idx = 0 /\ cur.stored = 0 /\ cur.parsed = 0

\* an archive whose last entry breaks the ratio limit was imported and rejected
C11_Witness ==
    /\ ZipImportEnded /\ cur.file.bytes = "bomb.zip"
    /\ ~LimitsHold(zipEntries)
    /\ ArtifactsOfRun(cur.run) = {cur.parent}

\* C12 as stated: the extraction loop is entered only if the limits hold for
\* the declared sizes, and it is entered whenever they hold.
C12_LoopIffDeclaredLimits ==
    /\ cur.idx >= 1 => DeclaredLimitsHold(zipEntries)
    /\ (ZipImportEnded /\ DeclaredLimitsHold(zipEntries)) => cur.idx >= 1

\* C12: the extraction loop is entered exactly when the entry count, every
\* single size, every ratio (a declared compressed size of 0 counted as 1) and
\* the total are within the limits: equality passes, one more is rejected.
C12_LoopIffLimits ==
    /\ cur.idx >= 1 => LimitsHold(zipEntries)
    /\ (ZipImportEnded /\ LimitsHold(zipEntries)) => cur.idx >= 1

\* the archive exactly at every limit was imported and extracted to the end
C12_Witness ==
    /\ ZipImportEnded /\ cur.file.bytes = "atlimit.zip"
    /\ ~ret.threw
    /\ cur.idx = MAX_ENTRIES + 1 /\ cur.stored = FullCount + 1

\* the step is a parser invocation that throws
ParserThrows == pc \in {"entryParse", "parsePlain"} /\ ret'.threw

\* C13: a parser invocation that throws, also after it inserted threads and
\* messages, leaves threads, messages and the FTS index as they were before it.
C13_ParserThrowRollsBack ==
    [][ParserThrows => /\ db'.threads = db.threads
                       /\ db'.messages = db.messages
                       /\ db'.fts = db.fts]_vars

\* a parser threw on an unreadable message after inserting rows, in a vault
\* that held threads and messages
C13_Witness ==
    /\ ImportEnded /\ ret.err = "TypeError"
    /\ cur.parsed >= 1
    /\ Count(db.threads) > 0 /\ Count(db.messages) > 0

\* the ZIP import just ended because the parser of entry cur.idx threw
ParserThrewOnEntry == ZipImportEnded /\ ret.threw /\ cur.child # NULL

RECURSIVE SumOf(_)
SumOf(counts) == IF counts = <<>> THEN 0 ELSE Head(counts) + SumOf(Tail(counts))

\* the threads and the messages a readable document gives to a parser
ThreadsIn(parser, bytes) ==
    LET info == BlobInfo(bytes)
    IN IF parser = "chatgpt_html" THEN 1
       ELSE IF info.fmt # parser THEN (IF parser = "gemini" THEN 0 ELSE Len(info.threads))
       ELSE Cardinality({i \in 1..Len(info.threads) :
                           parser # "gemini" \/ info.threads[i] > 0 \/ info.skips[i] # {}})

MessagesIn(parser, bytes) ==
    LET info == BlobInfo(bytes)
    IN IF parser = "chatgpt_html" \/ info.fmt = parser THEN SumOf(info.threads) ELSE 0

\* the rows of the current run that came from the artifact with these bytes
ThreadsFrom(bytes) ==
    {t \in ThreadsOfRun(cur.run) : db.threads[t].raw_artifact_id \in RowsOf(bytes)}

MessagesFrom(bytes) ==
    {m \in MessagesOfRun(cur.run) : db.messages[m].raw_artifact_id \in RowsOf(bytes)}

SearchedDuringLastImport ==
    /\ search.done /\ search.run # NULL
    /\ pc = "idle" /\ cur.run = search.run

\* C15: a search requested while an import is in progress returns the hits of
\* the messages present after the import finished or of those present before
\* it began, never of a part of the import's messages.
C15_SearchSeesNoPartialImport ==
    SearchedDuringLastImport =>
        \/ search.hits = searchMessages(db)
        \/ search.hits = searchMessages(db) \ MessagesOfRun(search.run)

\* a search requested during a ZIP import with two parsed entries was handled
\* and returned messages of that import
C15_Witness ==
    /\ SearchedDuringLastImport
    /\ isZip /\ cur.parsed >= 2
    /\ search.hits \cap MessagesOfRun(search.run) # {}

\* C16: the rowids indexed in messages_fts are the ids of messages, after
\* every import (ended 'complete' or 'failed'), wipe and restart, so a
\* rolled-back message is not indexed and a search after a successful wipe
\* has no hits
C16_FtsIndexIsMessages ==
    /\ db.fts = DOMAIN db.messages
    /\ (ret.op = "wipe" /\ ~ret.threw => searchMessages(db) = {})

\* a failed import whose earlier entry stays indexed
C16_Witness ==
    /\ ImportEnded /\ ret.threw
    /\ MessagesOfRun(cur.run) # {}
    /\ db.fts = DOMAIN db.messages

\* C20: a migrate call on a database already at its target version leaves
\* the database as it was
C20_MigrateAtTargetChangesNothing ==
    [][\A opts \in MigrateOptions :
         (Migrate(opts) /\ readSchemaVersion(db) = opts.latest) => db' = db]_vars

\* the extraction loop hands a chat.html entry without a
\* <div class="message"> block to the HTML parser
ParsesHtmlWithoutBlocks ==
    /\ pc = "entryParse"
    /\ entryParser(cur.provider, admZipEntryName(zipEntries[cur.idx].rawName)) = "chatgpt_html"
    /\ BlobInfo(zipEntries[cur.idx].data).kind = "html"
    /\ BlobInfo(zipEntries[cur.idx].data).threads = <<0>>

\* C17: the HTML parser invoked on a chat.html entry without a message
\* block throws, the run ends 'failed' and no thread is created
C17_HtmlWithoutBlocksFails ==
    [][ParsesHtmlWithoutBlocks => /\ ret'.threw
                                  /\ db'.runs[cur.run].status = "failed"
                                  /\ db'.threads = db.threads]_vars

\* a plain file of valid JSON without provider fields is handed to a parser:
\* its root is not an array, or no element of the array has mapping,
\* chat_messages, conversations or messages
ParsesJsonWithoutFields ==
    /\ pc = "parsePlain"
    /\ plainParser(cur.provider) # "none"
    /\ BlobInfo(cur.file.bytes).kind = "json"
    /\ BlobInfo(cur.file.bytes).root # "array" \/ BlobInfo(cur.file.bytes).fmt = ""

\* C18: the import of valid JSON without provider fields fails: the run
\* ends 'failed' and no thread or message is created
C18_JsonWithoutFieldsFails ==
    [][ParsesJsonWithoutFields => /\ ret'.threw
                                  /\ db'.runs[cur.run].status = "failed"
                                  /\ db'.threads = db.threads
                                  /\ db'.messages = db.messages]_vars

\* the code the error table assigns to a failure of the pre-scan or of
\* JSON.parse
TableCode(errorMessage) ==
    CASE errorMessage \in {"ZIP_TOO_MANY_ENTRIES", "ZIP_ENTRY_TOO_LARGE", "ZIP_TOTAL_TOO_LARGE",
                           "PARSE_JSON_FAILED"} -> errorMessage
      [] errorMessage = "ZIP_RATIO" -> "ZIP_CORRUPT"
      [] OTHER -> "UNKNOWN_ERROR"

\* an import failed in the pre-scan or on content that is not valid JSON
FailedOnListedTrigger(run) ==
    /\ run.status = "failed"
    /\ run.error_message \in {"ZIP_TOO_MANY_ENTRIES", "ZIP_ENTRY_TOO_LARGE", "ZIP_TOTAL_TOO_LARGE",
                              "ZIP_RATIO", "PARSE_JSON_FAILED"}

\* C19: for a run that failed on one of the four pre-scan limits or on
\* invalid JSON, the error_code that diagnostics shows is the code the error
\* table assigns to that failure
C19_ShownCodeIsTableCode ==
    \A id \in recent_runs(db) :
        FailedOnListedTrigger(db.runs[id]) =>
            error_code(db.runs[id]) = TableCode(db.runs[id].error_message)

\* the pending migrations of a migrate call with these options
PendingOf(opts) == pending(opts.migrations, readSchemaVersion(db), opts.latest)

\* the position of the first migration whose script fails (0: none fails)
FirstFailing(ms) ==
    IF \E i \in 1..Len(ms) : ~ms[i].ok THEN Min({i \in 1..Len(ms) : ~ms[i].ok}) ELSE 0

VersionsOf(ms) == [i \in 1..Len(ms) |-> ms[i].version]

\* C21: when the script of pending migration k fails, migrate throws, the
\* schema holds the migrations that committed before k and nothing of k or
\* of a later one, schema_version is the version of the last of them (the
\* starting version when there is none), and no row changes
C21_FailedMigrationRollsBack ==
    [][\A opts \in MigrateOptions :
         LET ms == PendingOf(opts)
             k == FirstFailing(ms)
         IN (Migrate(opts) /\ k # 0) =>
                /\ ret'.threw
                /\ db'.schema.applied = db.schema.applied \o VersionsOf(SubSeq(ms, 1, k - 1))
                /\ db'.schema.version = IF k = 1 THEN db.schema.version ELSE ms[k - 1].version
                /\ db'.threads = db.threads /\ db'.messages = db.messages
                /\ db'.fts = db.fts]_vars

\* a migrate call threw after an earlier migration of the same call committed
C21_Witness ==
    /\ ret.op = "migrate" /\ ret.threw
    /\ db.schema.version >= 1
    /\ db.schema.user_version < db.schema.version

\* C22: after a migrate call, returned or thrown, user_version is the
\* integer stored under schema_version
C22_UserVersionMirrorsSchemaVersion ==
    ret.op = "migrate" => db.schema.user_version = readSchemaVersion(db)

\* a migrate call has just returned
MigrateReturned == ret.op = "migrate" /\ ~ret.threw

\* C23: after a migrate call that returned, whichever FTS objects existed
\* before it, messages_fts and its three triggers exist, and a message
\* inserted next is in the FTS index
C23_MigrateRestoresFts ==
    /\ [](MigrateReturned => db.schema.objects = FtsObjects)
    /\ [][MigrateReturned /\ insertTestMessage => db'.seq.messages \in db'.fts]_vars

\* a message inserted while triggers were missing is not indexed, and the
\* message inserted after the next migrate call is
C23_Witness ==
    /\ ret.op = "insertTestMessage"
    /\ db.seq.messages \in db.fts
    /\ DOMAIN db.messages \ db.fts # {}
    /\ db.schema.objects = FtsObjects

\* the versions v of a list with current < v <= target
DueVersions(opts) ==
    {opts.migrations[i].version : i \in 1..Len(opts.migrations)}
        \cap ((readSchemaVersion(db) + 1)..opts.latest)

\* the elements of a set of numbers in ascending order
Ascending(S) ==
    [i \in 1..Cardinality(S) |-> CHOOSE v \in S : Cardinality({w \in S : w < v}) = i - 1]

\* C24: a migrate call that returns has applied the migrations of the list
\* with current < version <= target, each once and in ascending order
\* whatever their order in the list; no row changes, schema_version does not
\* decrease and ends at the largest applied version (unchanged when nothing
\* was pending)
C24_MigrateAppliesDueInOrder ==
    [][\A opts \in MigrateOptions :
         (Migrate(opts) /\ ~ret'.threw) =>
             /\ db'.schema.applied = db.schema.applied \o Ascending(DueVersions(opts))
             /\ db'.schema.version >= db.schema.version
             /\ db'.schema.version = IF DueVersions(opts) = {} THEN db.schema.version
                                      ELSE CHOOSE v \in DueVersions(opts) :
                                               \A w \in DueVersions(opts) : w <= v
             /\ db'.threads = db.threads /\ db'.messages = db.messages
             /\ db'.fts = db.fts]_vars

\* a migrate call returned on a database that holds rows and went through
\* two migrations
C24_Witness ==
    /\ MigrateReturned
    /\ db.schema.applied = <<1, 2>> /\ db.schema.version = 2
    /\ DOMAIN db.messages # {}

\* C25: paths() throws before initPaths and returns the configuration after
\* it; the first initPaths call succeeds, every later one throws and leaves
\* the configuration as it was; a configuration once set never changes, so
\* all reads of a process return the same four paths
C25_PathsSetOnce ==
    /\ [](ret.op = "paths" => IF _paths = NoPaths THEN ret.threw
                               ELSE ~ret.threw /\ ret.id = _paths)
    /\ [][\A userDataDir \in UserDataDirs :
             initPaths(userDataDir) =>
                 IF _paths = NoPaths
                 THEN ~ret'.threw /\ _paths' = VaultPaths(userDataDir)
                 ELSE ret'.threw /\ _paths' = _paths]_vars
    /\ [][_paths # NoPaths => _paths' = _paths]_vars

\* a second initPaths call, with another directory, has thrown
C25_Witness ==
    /\ ret.op = "initPaths" /\ ret.threw
    /\ _paths = VaultPaths(<<Dir("tmp"), Dir("smoke")>>)

\* C26: whatever file name storeRawArtifact is given, by an import or by
\* the artifact RPC, every file is written directly inside the artifacts
\* directory and each row's stored_path is artifactsDir/<sha256>-<basename>
C26_StoredInsideArtifactsDir ==
    /\ \A f \in DOMAIN disk : SubSeq(f, 1, Len(f) - 1) = _paths.artifactsDir
    /\ \A a \in DOMAIN db.artifacts :
          LET row == db.artifacts[a]
          IN /\ row.filename.dirs = <<>> /\ ~row.filename.abs
             /\ row.stored_path = Append(_paths.artifactsDir,
                                          Component(row.sha256, row.filename.stem, row.filename.ext))

\* a file named 'a/../../../../x.json' was stored through the RPC, after
\* the '../outside.json' entry of an archive
C26_Witness ==
    /\ ret.op = "store" /\ ~ret.threw /\ ~ret.skipped
    /\ db.artifacts[ret.id].filename.stem = "x"
    /\ \E a \in DOMAIN db.artifacts : db.artifacts[a].filename.stem = "outside"

\* the raw_artifacts row of artifact id exists and its file is on disk
Persisted(id) ==
    /\ id \in DOMAIN db.artifacts
    /\ db.artifacts[id].stored_path \in DOMAIN disk

\* C27: whenever importFileHeadless is about to hand content to a parser, the
\* artifact whose id it passes (the parent for a plain file, the entry's
\* child for an archive) has its raw_artifacts row and its file on disk
C27_RawPersistedBeforeParsed ==
    /\ pc = "parsePlain" /\ plainParser(cur.provider) # "none" => Persisted(cur.parent)
    /\ pc = "entryParse" /\ entryParser(cur.provider, admZipEntryName(zipEntries[cur.idx].rawName)) # "none"
          => Persisted(cur.child)

\* the dispatch table: the parser for an entry name under a provider tag
DispatchTable(provider, n) ==
    CASE provider = "chatgpt" /\ n.stem = "conversations" /\ n.ext = "json" -> "chatgpt"
      [] provider = "chatgpt" /\ n.stem = "chat" /\ n.ext = "html" -> "chatgpt_html"
      [] provider \in {"claude", "gemini"} /\ n.ext = "json" -> provider
      [] OTHER -> "none"

\* the non-directory entries among the first i entries of the archive
FileEntriesUpTo(i) == {j \in 1..i : j <= Len(zipEntries) /\ ~zipEntries[j].isDirectory}

\* entry j has a raw_artifacts row (its own, or the one its bytes already had)
EntryStored(j) == RowsOf(zipEntries[j].data) # {}

InExtraction == pc \in {"entry", "entryParse", "finish"} /\ isZip

\* the ZIP import returned normally
ZipImportReturned == ImportEnded /\ ~ret.threw /\ isZip

YieldOf(provider, file, In(_, _)) ==
    IF isZipName(file.name)
    THEN LET entries == BlobInfo(file.bytes).entries
             parserOf(j) == DispatchTable(provider, admZipEntryName(entries[j].rawName))
         IN SumOf([j \in 1..Len(entries) |->
                     IF entries[j].isDirectory \/ parserOf(j) = "none" THEN 0
                     ELSE In(parserOf(j), entries[j].data)])
    ELSE In(plainParser(provider), file.bytes)

\* the import that just ended is the only run of the vault: it began in a
\* new vault, or in one whose tables the last wipe had emptied
OnlyRun == ImportEnded /\ DOMAIN db.runs = {cur.run}

\* a row of the current run and a file with these bytes
StoredAgain(bytes) ==
    \E a \in RowsOf(bytes) :
        /\ db.artifacts[a].ingestion_run_id = cur.run
        /\ db.artifacts[a].stored_path \in DOMAIN disk
        /\ disk[db.artifacts[a].stored_path] = bytes

EnvironmentErrors == {"FS_WRITE_FAILED", "DB_WRITE_FAILED"}

\* C29: an import of F into a vault that is new or was emptied by a wipe
\* fails only when a write fails, and otherwise leaves exactly the threads
\* and messages that F holds (the same numbers in the new vault and after
\* the wipe), with the artifact rows and files of F and of its entries
\* present under the new run.
C29_WipeThenReimportYieldsSame ==
    OnlyRun =>
        IF ret.threw THEN ret.err \in EnvironmentErrors
        ELSE /\ Count(db.threads) = YieldOf(cur.provider, cur.file, ThreadsIn)
             /\ Count(db.messages) = YieldOf(cur.provider, cur.file, MessagesIn)
             /\ StoredAgain(cur.file.bytes)
             /\ isZip => \A j \in FileEntriesUpTo(Len(zipEntries)) : StoredAgain(zipEntries[j].data)

\* the archive was imported, wiped and imported again: the counters of
\* artifacts, threads and messages ever inserted are twice the rows present
C29_Witness ==
    /\ OnlyRun /\ ~ret.threw /\ cur.run = 2
    /\ cur.file.bytes = "chatgpt.zip"
    /\ Count(db.artifacts) = 4 /\ db.seq.artifacts = 8
    /\ Count(db.threads) = 2 /\ db.seq.threads = 4
    /\ Count(db.messages) > 0 /\ db.seq.messages = 2 * Count(db.messages)

\* a step of importFileHeadless
ImportStep == pc # "idle" \/ pc' # "idle"

\* every row of table f is a row of g, unchanged
RowsKept(f, g) == \A k \in DOMAIN f : k \in DOMAIN g /\ g[k] = f[k]

\* C30: no step of an import, failed or not, changes or removes a thread, a
\* message, an FTS entry, a raw_artifacts row, an artifact file or the row of
\* another ingestion run, so a search returns at least the hits it returned
\* before; only wipeVault removes artifact rows or files.
C30_FailedImportKeepsEarlierData ==
    /\ [][ImportStep =>
            /\ RowsKept(db.threads, db'.threads)
            /\ RowsKept(db.messages, db'.messages)
            /\ db.fts \subseteq db'.fts
            /\ RowsKept(db.artifacts, db'.artifacts)
            /\ RowsKept(disk, disk')
            /\ RowsKept([r \in DOMAIN db.runs \ {cur'.run} |-> db.runs[r]], db'.runs)
            /\ searchMessages(db) \subseteq searchMessages(db')]_vars
    /\ [][(~RowsKept(db.artifacts, db'.artifacts) \/ ~RowsKept(disk, disk')) => ret'.op = "wipe"]_vars

\* the second import failed after storing an artifact of its own, in a
\* vault that holds the threads, messages and hits of a completed first run
C30_Witness ==
    /\ ImportEnded /\ ret.threw /\ cur.run = 2
    /\ db.runs[2].status = "failed"
    /\ 1 \in DOMAIN db.runs /\ db.runs[1].status = "complete"
    /\ ThreadsOfRun(1) # {} /\ searchMessages(db) # {}
    /\ \E a \in DOMAIN db.artifacts : db.artifacts[a].ingestion_run_id = 2

\* the raw_artifacts row of artifact id exists, its file is on disk and it
\* carries the id of the run of the import
OwnedByImport(id) ==
    /\ Persisted(id)
    /\ db.artifacts[id].ingestion_run_id = cur.run

\* C31: after a failed import, the parent artifact and the child artifact
\* stored last before the failure have their row, their file on disk and
\* the id of the failed run.
C31_FailedRunOwnsItsArtifacts ==
    (ImportEnded /\ ret.threw /\ cur.parent # NULL) =>
        /\ OwnedByImport(cur.parent)
        /\ cur.child # NULL => OwnedByImport(cur.child)

\* imports of a plain file and of an archive, with the artifact RPCs
WriteCalls == {c \in StoreCalls : c.file.bytes \in {"claude.json", "chatgpt.zip"}}

SpecWrite == Init /\ [][NextImportOf(WriteCalls) \/ NextStoreRpc]_vars

\* the bytes handed to the storeRawArtifact call on which the import failed
BytesAtFailure == IF cur.parent = NULL THEN cur.file.bytes ELSE zipEntries[cur.idx].data

\* C32: a call of storeRawArtifact whose file write fails throws and leaves
\* the raw_artifacts table and the disk as they were; no row holds those
\* bytes afterwards, and a call reports a duplicate only when a row for its
\* bytes existed before it.
C32_FailedWriteInsertsNoRow ==
    /\ [][ret'.err = "FS_WRITE_FAILED" =>
            /\ ret'.threw
            /\ db'.artifacts = db.artifacts /\ db'.seq.artifacts = db.seq.artifacts
            /\ disk' = disk]_vars
    /\ [](ImportEnded /\ ret.err = "FS_WRITE_FAILED" => RowsOf(BytesAtFailure) = {})
    /\ [][pc = "storeParent" /\ pc' # "idle" /\ cur'.parentSkipped => RowsOf(cur.file.bytes) # {}]_vars
    /\ [][\A runId \in 1..MaxRuns, file \in RpcFiles :
            RpcArtifactStore(runId, "chatgpt", file) =>
                /\ ret'.skipped => RowsOf(file.bytes) # {}
                /\ ret'.err = "FS_WRITE_FAILED" => RowsOf(file.bytes) = {}]_vars

\* the first import of a file stopped when the parent could not be written
\* (its run is still 'running', no row was inserted); the second import of
\* the same file stored the parent as a new artifact, not as a duplicate
C32_Witness ==
    /\ pc = "parsePlain" /\ cur.run = 2
    /\ db.runs[1].status = "running" /\ db.runs[1].source_label = db.runs[2].source_label
    /\ ~cur.parentSkipped /\ cur.parent = 1
    /\ Persisted(1)

\* other bytes of the same length
SameLength(b) ==
    CASE b = "chatgpt.json" -> "chat.html"
      [] b = "chat.html" -> "chatgpt.json"
      [] b = "garbage" -> "object.json"
      [] OTHER -> b

\* a vault that agrees with d on schema_meta, on provider, started_at,
\* completed_at, status and error_message of the runs and on provider,
\* artifact_type and byte_size of the artifacts, and has no thread, no
\* message, other source labels and other artifact names and paths
OtherVault(d) ==
    [d EXCEPT !.threads = EmptyFn, !.messages = EmptyFn, !.fts = {},
              !.runs = [id \in DOMAIN d.runs |->
                          [d.runs[id] EXCEPT !.source_label = Name(<<>>, "other", "txt")]],
              !.artifacts = [a \in DOMAIN d.artifacts |->
                               [d.artifacts[a] EXCEPT !.filename = Name(<<>>, "other", "txt"),
                                                      !.path_in_archive = Name(<<"p">>, "other", "txt"),
                                                      !.stored_path = <<>>]]]

\* the same number of files with the same sizes, under other names and with
\* other contents
OtherDisk(fs) ==
    LET renamed(f) == Append(SubSeq(f, 1, Len(f) - 1), Component(f[Len(f)].prefix, "other", "txt"))
    IN [g \in {renamed(f) : f \in DOMAIN fs} |->
          SameLength(fs[CHOOSE f \in DOMAIN fs : renamed(f) = g])]

\* C33: the report that vault:diagnostics:get returned is the report of
\* every vault that agrees with this one on schema_meta, on the allowed
\* columns of ingestion_runs and raw_artifacts and on the file sizes,
\* whatever its threads, messages, source labels, artifact names and paths.
C33_DiagnosticsIgnoresConversations ==
    ret.op = "diagnostics" =>
        ret.id = getDiagnostics(OtherVault(db), OtherDisk(disk), ret.id.vault.db_size_bytes)

\* a report of a vault with messages, a failed run and artifacts of two
\* types, whose files could be renamed
C33_Witness ==
    /\ ret.op = "diagnostics"
    /\ Count(db.messages) > 0 /\ Count(db.threads) > 0
    /\ \E id \in DOMAIN db.runs : db.runs[id].status = "failed"
    /\ Cardinality(DOMAIN ret.id.artifacts) >= 2
    /\ ret.id.vault.artifacts_total_bytes > 0
    /\ OtherDisk(disk) # disk /\ OtherVault(db) # db

MessagesOfThread(t) == {m \in DOMAIN db.messages : db.messages[m].thread_id = t}

\* C34: in every thread the positions of the messages are 0, 1, ..., n-1,
\* each once, and grow in the order in which the messages were inserted.
C34_PositionsAreDense ==
    \A t \in DOMAIN db.threads :
        LET ms == MessagesOfThread(t)
        IN /\ {db.messages[m].position : m \in ms} = 0..(Cardinality(ms) - 1)
           /\ \A m1, m2 \in ms : m1 < m2 => db.messages[m1].position < db.messages[m2].position

\* threads of two messages read from the ChatGPT mapping with a node that is
\* not text, from the HTML page with a block without content and from the
\* Gemini export with an empty message
C34_Witness ==
    \A bytes \in {"gaps.json", "gaps.html", "gemini-gaps.json"} :
        \E t \in DOMAIN db.threads :
            /\ db.threads[t].raw_artifact_id \in RowsOf(bytes)
            /\ Cardinality(MessagesOfThread(t)) = 2

\* C35: the AUTOINCREMENT counter of ingestion_runs never goes down and is
\* at least every id of the table, and every run a step creates has an id
\* above the counter, hence above the id of every run created before it,
\* deleted by a wipe or not.
C35_RunIdsNeverReused ==
    /\ [](\A id \in DOMAIN db.runs : id <= db.seq.runs)
    /\ [][/\ db'.seq.runs >= db.seq.runs
          /\ \A id \in DOMAIN db'.runs \ DOMAIN db.runs :
                /\ id > db.seq.runs
                /\ \A earlier \in DOMAIN db.runs : id > earlier]_vars

\* run 1 was deleted by a wipe and the run created after it has id 2
C35_Witness ==
    /\ DOMAIN db.runs = {2}
    /\ db.seq.runs = 2

\* C36: an interruption leaves the run of the import 'running', and no
\* step of a start, a search or an import changes or deletes the row of a
\* run other than the one of the import in progress.
C36_OrphanedRunStaysRunning ==
    /\ [][ret'.op = "interrupted" =>
            /\ db' = db
            /\ db'.runs[ret'.run].status = "running"]_vars
    /\ [][\A id \in DOMAIN db.runs :
            (pc = "idle" \/ id # cur.run) =>
                id \in DOMAIN db'.runs /\ db'.runs[id] = db.runs[id]]_vars

\* run 1 stored its parent and was interrupted; after the next start an
\* import completed as run 2, and run 1 is still 'running'
C36_Witness ==
    /\ pc = "idle" /\ DOMAIN db.runs = {1, 2}
    /\ db.runs[1].status = "running"
    /\ \E a \in DOMAIN db.artifacts : db.artifacts[a].ingestion_run_id = 1
    /\ db.runs[2].status = "complete"
    /\ ret.op = "initVault" /\ ~ret.threw

\* C37: ownership is hierarchical: every thread carries the run id of the
\* raw artifact it references, and every message carries the run id and the
\* raw artifact id of its thread.
C37_OwnershipIsHierarchical ==
    /\ \A t \in DOMAIN db.threads :
          /\ db.threads[t].raw_artifact_id \in DOMAIN db.artifacts
          /\ db.threads[t].ingestion_run_id =
                db.artifacts[db.threads[t].raw_artifact_id].ingestion_run_id
    /\ \A m \in DOMAIN db.messages :
          /\ db.messages[m].thread_id \in DOMAIN db.threads
          /\ db.messages[m].ingestion_run_id = db.threads[db.messages[m].thread_id].ingestion_run_id
          /\ db.messages[m].raw_artifact_id = db.threads[db.messages[m].thread_id].raw_artifact_id

\* C38: every file in the artifacts directory is the stored_path of some
\* raw_artifacts row.
C38_NoOrphanFiles ==
    \A f \in DOMAIN disk : \E a \in DOMAIN db.artifacts : db.artifacts[a].stored_path = f

\* C39: after a start without smoke arguments every channel has a handler,
\* no registration was refused because of an earlier one, and the handler of
\* vault:status returns the field vaultPath.
C39_EveryChannelHasItsHandler ==
    ret.op = "whenReady" =>
        /\ ~ret.id.threw
        /\ \A i \in 1..Len(Channels) : Cardinality(ListenersOf(ret.id, Channels[i])) = 1
        /\ \A l \in ListenersOf(ret.id, "vault:status") :
              "vaultPath" \in StatusResult(l, _paths).fields

====
